---- MODULE Spec2Model ----
(***************************************************************************)
(* State-machine model of the vLLM "extras" operational scripts:           *)
(*   extras/testing/run_tests.py        (curated test runner)              *)
(*   extras/testing/compare_results.py  (results comparator)               *)
(*   extras/tools/modelscope/manage.py  (serve, kv-calibrate, delete)      *)
(* Each script is a program of its own; each has its own specification     *)
(* over its own variables, the other programs' variables staying idle.     *)
(***************************************************************************)
EXTENDS Integers, Sequences, FiniteSets, TLC

(***************************************************************************)
(* Python's None and optional values: <<>> is None, <<v>> is the value v.  *)
(***************************************************************************)
None == <<>>

Some(v) == <<v>>

IsNone(x) == x = <<>>

Val(x) == x[1]

\* Sequences over S of length 0..n.
SeqUpTo(S, n) == UNION {[1..k -> S] : k \in 0..n}

RECURSIVE Concat(_)
\* Concatenation of a sequence of sequences.
Concat(ss) == IF ss = <<>> THEN <<>> ELSE Head(ss) \o Concat(Tail(ss))

(***************************************************************************)
(* run_tests.py state.                                                     *)
(***************************************************************************)
VARIABLES
    rt_pc,            \* position in run_tests.main: "start", "suite", "cmd", "done", "exit"
    rt_args_suite,    \* args.suite: the --suite arguments (<<>> when none given)
    rt_profile_suites,\* matrix["profiles"][profile]["suites"] (<<>> when absent)
    rt_default_suites,\* matrix["default_suites"] (<<>> when absent)
    rt_suites_cfg,    \* matrix["suites"]: suite name -> its commands list
    rt_selected,      \* suites = collect_suites(...)
    rt_si,            \* index of the suite main's loop is at
    rt_ci,            \* index of the command run_suite's loop is at
    rt_suite_results, \* run_suite's local results list
    rt_results,       \* main's results list
    rt_launched,      \* the environment's log of subprocess.run calls and their outcome
    rt_written,       \* payloads written by write_results, in order
    rt_summary,       \* what summarise printed: None or <<[total, failures]>>
    rt_exit           \* main's return value: None until it returns, then <<0>> or <<1>>;
                      \* it stays None when SystemExit is raised (rt_pc = "exit")

rtVars == <<rt_pc, rt_args_suite, rt_profile_suites, rt_default_suites, rt_suites_cfg,
            rt_selected, rt_si, rt_ci, rt_suite_results, rt_results, rt_launched,
            rt_written, rt_summary, rt_exit>>

(***************************************************************************)
(* compare_results.py state.                                               *)
(***************************************************************************)
VARIABLES
    cmp_pc,           \* position in compare_results.main: "idle", "start", "loop", "done",
                      \* "exit" (SystemExit), "error" (another exception left main)
    cmp_files,        \* the two results files: [baseline, patched], each [shape, index]
    cmp_baseline,     \* load_results(args.baseline)
    cmp_patched,      \* load_results(args.patched)
    cmp_all_keys,     \* compare's all_keys, sorted
    cmp_i,            \* index into all_keys of compare's loop
    cmp_regressions,  \* compare's regressions counter
    cmp_out,          \* the lines printed, each <<tag, key>>
    cmp_summary,      \* the summary line printed: None or <<text, count>>
    cmp_exit          \* main's return value: None until it returns

cmpVars == <<cmp_pc, cmp_files, cmp_baseline, cmp_patched, cmp_all_keys, cmp_i,
             cmp_regressions, cmp_out, cmp_summary, cmp_exit>>

(***************************************************************************)
(* manage.py state: the model cache that install, info and delete work on. *)
(***************************************************************************)
VARIABLES
    mc_cache_dir,     \* the --cache-dir every command is given: None or <<path>>
    mc_cache_root,    \* whether the cache root directory exists
    mc_snapshots,     \* the directories below the cache root that hold a config.json
    mc_meta,          \* whether <cache root>/.modelscope-manage.json exists
    mc_recorded,      \* the snapshot_path recorded in that file: None or <<path>>
    mc_kv_root,       \* whether the KV data directory of the model exists
    mc_volumes,       \* the Podman volumes that exist, among "model" and "kv"
    mc_podman,        \* whether the podman CLI is found
    mc_last,          \* the last command run: its arguments, prompt, answer and result
    mc_log            \* what the last install or delete did, in order (info
                      \* operates on nothing and leaves the log as it is)

mcVars == <<mc_cache_dir, mc_cache_root, mc_snapshots, mc_meta, mc_recorded, mc_kv_root,
            mc_volumes, mc_podman, mc_last, mc_log>>

(***************************************************************************)
(* manage.py state: the serve sub-command.                                 *)
(***************************************************************************)
VARIABLES
    sv_pc,            \* position in handle_serve: "idle", "start", "built", "ready",
                      \* "done", "exit" (SystemExit), "error" (CalledProcessError)
    sv_args,          \* the parsed arguments: profile, print_command, dry_run,
                      \* extra_arg, env
    sv_known,         \* load_profiles(): the names of the profiles
    sv_profile,       \* the profile --profile names, when it is one of them:
                      \* entrypoint, args, env, serve_env
    sv_environ,       \* os.environ
    sv_cmd,           \* cmd: the list of command tokens
    sv_env,           \* env: the environment built for the subprocess
    sv_out,           \* the lines printed, each <<kind, text>>
    sv_launched,      \* the subprocess launched: None or <<[cmd, env]>>
    sv_rc,            \* handle_serve's return value: None until it returns
    sv_exit           \* the message of the SystemExit raised, None when none was

svVars == <<sv_pc, sv_args, sv_known, sv_profile, sv_environ, sv_cmd, sv_env, sv_out,
            sv_launched, sv_rc, sv_exit>>

(***************************************************************************)
(* manage.py state: the kv-calibrate sub-command.                          *)
(***************************************************************************)
VARIABLES
    kv_pc,            \* position in handle_kv_calibrate: "idle", "start", "volumes",
                      \* "output", "calib", "download", "synthesize", "clone",
                      \* "deps", "script", "run", "done", "exit" (SystemExit),
                      \* "error" (another exception)
    kv_args,          \* the parsed arguments
    kv_profiles,      \* load_profiles(): profile name -> profile
    kv_environ,       \* os.environ
    kv_fs0,           \* the files and directories present when the command started
    kv_fs,            \* the files and directories present
    kv_podman,        \* whether the podman CLI is installed
    kv_volumes,       \* the Podman volumes of the model: "model", "kv"
    kv_loc,           \* the handler's locals: section, model_id, cache_dir, output,
                      \* calib_path, model_dir, repo_path
    kv_log,           \* the file and subprocess operations performed, in order
    kv_launched,      \* the quantization subprocess: None or <<[cmd, env]>>
    kv_rc,            \* handle_kv_calibrate's return value: None until it returns
    kv_exit           \* the message of the SystemExit raised, None when none was

kvVars == <<kv_pc, kv_args, kv_profiles, kv_environ, kv_fs0, kv_fs, kv_podman,
            kv_volumes, kv_loc, kv_log, kv_launched, kv_rc,
            kv_exit>>

(***************************************************************************)
(* manage.py state: _synthesize_transformer_files on one model directory.  *)
(***************************************************************************)
VARIABLES
    sy_pc,            \* position: "idle", "start", "created" (missing files written),
                      \* "normalized", "returned", "raised"
    sy_before,        \* the directory before the call: file name -> content
    sy_files          \* the directory now: file name -> content

syVars == <<sy_pc, sy_before, sy_files>>

(***************************************************************************)
(* final_environment_test.py state: one run of main.                       *)
(***************************************************************************)
VARIABLES
    fe_pc,            \* position: "idle", "gpu", "vllm", "classes", "results",
                      \* "done", "escaped" (an exception left main)
    fe_env,           \* the machine: what each import and call does
    fe_ok,            \* gpu_ok, vllm_ok, classes_ok: check name -> flag, once set
    fe_attempted,     \* whether `from vllm import LLM, SamplingParams` was run
    fe_rc             \* what main returned, None until it returns

feVars == <<fe_pc, fe_env, fe_ok, fe_attempted, fe_rc>>

(***************************************************************************)
(* validate-rtx5090.py state: one run of the script.                       *)
(***************************************************************************)
VARIABLES
    vr_pc,            \* position: "idle", "environment", "cuda", "pytorch",
                      \* "vllm", "summary", "exited"
    vr_env,           \* the machine: environment, commands and imports
    vr_results,       \* main's results: check name -> "True", "False" or "None"
    vr_summary,       \* <<passed_checks, total_checks>> as printed, <<>> before
    vr_exit           \* the exit status, None until the script exits

vrVars == <<vr_pc, vr_env, vr_results, vr_summary, vr_exit>>

(***************************************************************************)
(* run_tests.py state: one call of collect_suites.                         *)
(***************************************************************************)
VARIABLES
    cs_pc,            \* position: "idle", "call", "returned", "exit" (SystemExit)
    cs_matrix,        \* the matrix: profiles, default_suites, suites (its keys)
    cs_profile,       \* the profile argument
    cs_suites,        \* the suites argument: the --suite values, <<>> when none
    cs_selected       \* the list returned, None before and on SystemExit

csVars == <<cs_pc, cs_matrix, cs_profile, cs_suites, cs_selected>>

\* The empty mapping.
EmptyMap == [k \in {} |-> None]

\* The comparator is not running.
CmpIdle ==
    /\ cmp_pc = "idle"
    /\ cmp_files = [baseline |-> [shape |-> "missing", index |-> EmptyMap],
                    patched  |-> [shape |-> "missing", index |-> EmptyMap]]
    /\ cmp_baseline = EmptyMap
    /\ cmp_patched = EmptyMap
    /\ cmp_all_keys = <<>>
    /\ cmp_i = 0
    /\ cmp_regressions = 0
    /\ cmp_out = <<>>
    /\ cmp_summary = None
    /\ cmp_exit = None

\* The test runner is not running.
RTIdle ==
    /\ rt_pc = "idle"
    /\ rt_args_suite = <<>>
    /\ rt_profile_suites = <<>>
    /\ rt_default_suites = <<>>
    /\ rt_suites_cfg = EmptyMap
    /\ rt_selected = <<>>
    /\ rt_si = 0
    /\ rt_ci = 0
    /\ rt_suite_results = <<>>
    /\ rt_results = <<>>
    /\ rt_launched = <<>>
    /\ rt_written = <<>>
    /\ rt_summary = None
    /\ rt_exit = None

\* No manage.py cache command has run.
NoCommand ==
    [cmd |-> "none", force |-> FALSE, remove_volume |-> FALSE, remove_kv |-> FALSE,
     no_volume |-> FALSE, no_kv_volume |-> FALSE,
     prompted |-> FALSE, answer |-> <<>>, snapshot |-> None, rc |-> 0]

\* manage.py's cache commands are not running, on an empty machine.
McIdle ==
    /\ mc_cache_dir = None
    /\ mc_cache_root = FALSE
    /\ mc_snapshots = {}
    /\ mc_meta = FALSE
    /\ mc_recorded = None
    /\ mc_kv_root = FALSE
    /\ mc_volumes = {}
    /\ mc_podman = FALSE
    /\ mc_last = NoCommand
    /\ mc_log = <<>>

\* manage.py serve is not running.
SvIdle ==
    /\ sv_pc = "idle"
    /\ sv_args = [profile |-> "", print_command |-> FALSE, dry_run |-> FALSE,
                  extra_arg |-> <<>>, env |-> <<>>]
    /\ sv_known = {}
    /\ sv_profile = [entrypoint |-> None, args |-> <<>>,
                     env |-> EmptyMap, serve_env |-> EmptyMap]
    /\ sv_environ = EmptyMap
    /\ sv_cmd = <<>>
    /\ sv_env = EmptyMap
    /\ sv_out = <<>>
    /\ sv_launched = None
    /\ sv_rc = None
    /\ sv_exit = None

\* kv-calibrate's arguments when none is given.
KvNoArgs ==
    [profile |-> None, model |-> None, cache_dir |-> None, output |-> None,
     calib_data |-> None, samples |-> None, seq_len |-> None,
     quant_script |-> None, quant_arg |-> <<>>, llm_compressor_repo |-> None,
     force |-> FALSE, skip_deps |-> FALSE, no_volumes |-> FALSE]

\* kv-calibrate's locals before any is assigned.
KvNoLocals ==
    [section |-> None, model_id |-> "", cache_dir |-> None, output |-> None,
     calib_path |-> None, model_dir |-> None, repo_path |-> None]

\* manage.py kv-calibrate is not running.
KvIdle ==
    /\ kv_pc = "idle"
    /\ kv_args = KvNoArgs
    /\ kv_profiles = EmptyMap
    /\ kv_environ = EmptyMap
    /\ kv_fs0 = {}
    /\ kv_fs = {}
    /\ kv_podman = FALSE
    /\ kv_volumes = {}
    /\ kv_loc = KvNoLocals
    /\ kv_log = <<>>
    /\ kv_launched = None
    /\ kv_rc = None
    /\ kv_exit = None

\* _synthesize_transformer_files is not running.
SyIdle ==
    /\ sy_pc = "idle"
    /\ sy_before = [n \in {} |-> ""]
    /\ sy_files = [n \in {} |-> ""]

\* final_environment_test.py is not running.
FeIdle ==
    /\ fe_pc = "idle"
    /\ fe_env = [n \in {} |-> ""]
    /\ fe_ok = [n \in {} |-> FALSE]
    /\ fe_attempted = FALSE
    /\ fe_rc = None

\* validate-rtx5090.py is not running.
VrIdle ==
    /\ vr_pc = "idle"
    /\ vr_env = [n \in {} |-> ""]
    /\ vr_results = [n \in {} |-> ""]
    /\ vr_summary = <<>>
    /\ vr_exit = None

\* collect_suites is not running.
CsIdle ==
    /\ cs_pc = "idle"
    /\ cs_matrix = [profiles |-> [n \in {} |-> ""], default_suites |-> <<>>,
                    suites |-> <<>>]
    /\ cs_profile = ""
    /\ cs_suites = <<>>
    /\ cs_selected = None

\* The variables run_tests.py leaves alone.
notRT == <<cmpVars, mcVars, svVars, kvVars, syVars, feVars, vrVars, csVars>>

\* The variables compare_results.py leaves alone.
notCmp == <<rtVars, mcVars, svVars, kvVars, syVars, feVars, vrVars, csVars>>

\* The variables manage.py's cache commands leave alone.
notMc == <<rtVars, cmpVars, svVars, kvVars, syVars, feVars, vrVars, csVars>>

\* The variables manage.py serve leaves alone.
notSv == <<rtVars, cmpVars, mcVars, kvVars, syVars, feVars, vrVars, csVars>>

\* The variables manage.py kv-calibrate leaves alone.
notKv == <<rtVars, cmpVars, mcVars, svVars, syVars, feVars, vrVars, csVars>>

\* The variables _synthesize_transformer_files leaves alone.
notSy == <<rtVars, cmpVars, mcVars, svVars, kvVars, feVars, vrVars, csVars>>

\* The variables final_environment_test.py leaves alone.
notFe == <<rtVars, cmpVars, mcVars, svVars, kvVars, syVars, vrVars, csVars>>

\* The variables validate-rtx5090.py leaves alone.
notVr == <<rtVars, cmpVars, mcVars, svVars, kvVars, syVars, feVars, csVars>>

\* The variables collect_suites leaves alone.
notCs == <<rtVars, cmpVars, mcVars, svVars, kvVars, syVars, feVars, vrVars>>

vars == <<rtVars, cmpVars, mcVars, svVars, kvVars, syVars, feVars, vrVars, csVars>>

(***************************************************************************)
(*                      run_tests.py : the test runner                     *)
(***************************************************************************)
\* Longest commands list of a suite in the matrices drawn.
MaxCmds == 2

\* run_tests.py:20
MAX_OUTPUT_CHARS == 4000

\* Suites declared in the matrix, in declaration order.
DeclaredSuites == <<"s1", "s2">>

\* A command item of a suite: its shape decides which validation of run_suite it
\* fails (if any); timeout is the raw "timeout" value in tenths of a second
\* (25 is the YAML value 2.5), None when the key is absent.
ItemShapes == {"ok", "not_mapping", "no_cmd", "bad_workdir", "bad_env"}

Items == {[shape |-> "ok", timeout |-> None],
          [shape |-> "ok", timeout |-> Some(25)],
          [shape |-> "no_cmd", timeout |-> None]}

\* The selection inputs drawn: the --suite arguments, the profile's suites and
\* the matrix's default_suites ("s3" is not declared in the matrix).
SelectionInputs ==
    {[args |-> <<"s1">>,       profile |-> <<"s2">>, default |-> <<"s1">>],
     [args |-> <<"s2", "s1">>, profile |-> <<>>,     default |-> <<>>],
     [args |-> <<"s1", "s1">>, profile |-> <<>>,     default |-> <<"s2">>],
     [args |-> <<"s1", "s3">>, profile |-> <<>>,     default |-> <<>>],
     [args |-> <<>>,           profile |-> <<"s2">>, default |-> <<"s1">>],
     [args |-> <<>>,           profile |-> <<>>,     default |-> <<"s1">>],
     [args |-> <<>>,           profile |-> <<>>,     default |-> <<>>]}

\* int(timeout) of run_suite, on a value given in tenths.
IntOf(tenths) == tenths \div 10

\* What a finished subprocess reports: return code, measured duration, and the
\* number of characters it wrote to stdout.
CompletedOutcomes == {[rc |-> 0, duration |-> 0, stdout |-> 12],
                      [rc |-> 1, duration |-> 1, stdout |-> 4001]}

\* A mutant of collect_suites: the profile's suites come before --suite.
collect_suites_ProfileFirst(args_suite, profile_suites, default_suites, declared) ==
    LET first == IF profile_suites # <<>> THEN profile_suites
                 ELSE IF args_suite # <<>> THEN args_suite
                 ELSE default_suites
        selected == IF first # <<>> THEN first ELSE declared
    IN  IF selected = <<>> THEN None ELSE Some(selected)

\* collect_suites: --suite, else the profile's suites, else default_suites, else
\* every declared suite; None (SystemExit) when nothing is selected.
collect_suites(args_suite, profile_suites, default_suites, declared) ==
    LET first == IF args_suite # <<>> THEN args_suite
                 ELSE IF profile_suites # <<>> THEN profile_suites
                 ELSE default_suites
        selected == IF first # <<>> THEN first ELSE declared
    IN  IF selected = <<>> THEN None ELSE Some(selected)

\* _tail of run_command, on a text given by its length.
TailLen(n) == IF n <= MAX_OUTPUT_CHARS THEN n ELSE MAX_OUTPUT_CHARS

\* run_command's return value for a subprocess that finished.
run_command(outcome) ==
    [returncode |-> Some(outcome.rc),
     duration_s |-> outcome.duration,
     stdout     |-> TailLen(outcome.stdout)]

\* A mutant of StatusOf: a return code of 1 is taken for success.
StatusOf_Lenient(returncode) == IF returncode <= 1 THEN "passed" ELSE "failed"

\* run_suite line 118: the status of a command that finished.
StatusOf(returncode) == IF returncode = 0 THEN "passed" ELSE "failed"

\* run_suite lines 120-126: the outcome recorded when TimeoutExpired is caught.
TimeoutOutcome(timeout) ==
    [returncode |-> None, duration_s |-> timeout, stdout |-> 0]

\* run_suite lines 128-136: the record appended for a command.
Record(suite, index, status, outcome) ==
    [suite |-> suite, name |-> index, status |-> status,
     returncode |-> outcome.returncode, duration_s |-> outcome.duration_s,
     stdout |-> outcome.stdout]

\* A mutant of Extend: the suite's records are put in front.
Extend_Prepend(results, more) == more \o results

\* main line 199: results.extend(run_suite(...)).
Extend(results, more) == results \o more

\* A mutant of ExitCode: a timed-out command does not fail the run.
ExitCode_IgnoreTimeout(results) ==
    IF \A i \in 1..Len(results) : results[i].status # "failed" THEN 0 ELSE 1

\* main line 204.
ExitCode(results) ==
    IF \A i \in 1..Len(results) : results[i].status = "passed" THEN 0 ELSE 1

\* A mutant of write_results: the payload is written twice.
write_results_Twice(written, payload) == written \o <<payload, payload>>

\* write_results lines 151-154: the payload is written to the results file.
write_results(written, payload) == Append(written, payload)

\* summarise lines 161-163.
summarise(results) ==
    [total |-> Len(results),
     failures |-> Cardinality({i \in 1..Len(results) : results[i].status # "passed"})]

RTInit ==
    /\ rt_pc = "start"
    /\ \E sel \in SelectionInputs :
          /\ rt_args_suite = sel.args
          /\ rt_profile_suites = sel.profile
          /\ rt_default_suites = sel.default
    /\ rt_suites_cfg \in [{DeclaredSuites[i] : i \in 1..Len(DeclaredSuites)}
                            -> SeqUpTo(Items, MaxCmds)]
    /\ rt_selected = <<>>
    /\ rt_si = 0
    /\ rt_ci = 0
    /\ rt_suite_results = <<>>
    /\ rt_results = <<>>
    /\ rt_launched = <<>>
    /\ rt_written = <<>>
    /\ rt_summary = None
    /\ rt_exit = None

\* main lines 187-192: the matrix is loaded and the suites are selected.
RTSelect ==
    /\ rt_pc = "start"
    /\ LET sel == collect_suites(rt_args_suite, rt_profile_suites,
                                 rt_default_suites, DeclaredSuites)
       IN  IF IsNone(sel)
           THEN /\ rt_pc' = "exit"
                /\ UNCHANGED <<rt_selected, rt_si, rt_exit>>
           ELSE /\ rt_selected' = Val(sel)
                /\ rt_si' = 1
                /\ rt_pc' = "suite"
                /\ UNCHANGED rt_exit
    /\ UNCHANGED <<rt_args_suite, rt_profile_suites, rt_default_suites, rt_suites_cfg,
                   rt_ci, rt_suite_results, rt_results, rt_launched, rt_written,
                   rt_summary>>
    /\ UNCHANGED notRT

\* main lines 195-198 and run_suite lines 87-91: the next suite is looked up.
RTBeginSuite ==
    /\ rt_pc = "suite"
    /\ rt_si <= Len(rt_selected)
    /\ IF rt_selected[rt_si] \in DOMAIN rt_suites_cfg
       THEN /\ rt_pc' = "cmd"
            /\ rt_ci' = 1
            /\ rt_suite_results' = <<>>
            /\ UNCHANGED rt_exit
       ELSE /\ rt_pc' = "exit"
            /\ UNCHANGED <<rt_ci, rt_suite_results, rt_exit>>
    /\ UNCHANGED <<rt_args_suite, rt_profile_suites, rt_default_suites, rt_suites_cfg,
                   rt_selected, rt_si, rt_results, rt_launched, rt_written, rt_summary>>
    /\ UNCHANGED notRT

\* run_suite lines 92-138: one iteration of the commands loop. The item is
\* validated, the command is run once, and its record is appended.
RTRunCommand ==
    /\ rt_pc = "cmd"
    /\ rt_ci <= Len(rt_suites_cfg[rt_selected[rt_si]])
    /\ LET suite == rt_selected[rt_si]
           item == rt_suites_cfg[suite][rt_ci]
           timeout == IF IsNone(item.timeout) THEN None
                      ELSE Some(IntOf(Val(item.timeout)))
       IN  IF item.shape # "ok"
           THEN /\ rt_pc' = "exit"
                /\ UNCHANGED <<rt_ci, rt_suite_results, rt_launched, rt_exit>>
           ELSE /\ \/ \E o \in CompletedOutcomes :
                        /\ rt_launched' = Append(rt_launched,
                               [suite |-> suite, index |-> rt_ci, timeout |-> timeout,
                                timed_out |-> FALSE, rc |-> Some(o.rc)])
                        /\ rt_suite_results' = Append(rt_suite_results,
                               Record(suite, rt_ci, StatusOf(o.rc), run_command(o)))
                   \/ /\ ~IsNone(timeout)
                      /\ rt_launched' = Append(rt_launched,
                             [suite |-> suite, index |-> rt_ci, timeout |-> timeout,
                              timed_out |-> TRUE, rc |-> None])
                      /\ rt_suite_results' = Append(rt_suite_results,
                             Record(suite, rt_ci, "timeout", TimeoutOutcome(Val(timeout))))
                /\ rt_ci' = rt_ci + 1
                /\ UNCHANGED <<rt_pc, rt_exit>>
    /\ UNCHANGED <<rt_args_suite, rt_profile_suites, rt_default_suites, rt_suites_cfg,
                   rt_selected, rt_si, rt_results, rt_written, rt_summary>>
    /\ UNCHANGED notRT

\* run_suite line 139 and main line 199: the suite's records join the results.
RTEndSuite ==
    /\ rt_pc = "cmd"
    /\ rt_ci > Len(rt_suites_cfg[rt_selected[rt_si]])
    /\ rt_results' = Extend(rt_results, rt_suite_results)
    /\ rt_suite_results' = <<>>
    /\ rt_si' = rt_si + 1
    /\ rt_pc' = "suite"
    /\ UNCHANGED <<rt_args_suite, rt_profile_suites, rt_default_suites, rt_suites_cfg,
                   rt_selected, rt_ci, rt_launched, rt_written, rt_summary, rt_exit>>
    /\ UNCHANGED notRT

\* main lines 201-204: results are written, summarised, and the exit code returned.
RTFinish ==
    /\ rt_pc = "suite"
    /\ rt_si > Len(rt_selected)
    /\ rt_written' = write_results(rt_written, rt_results)
    /\ rt_summary' = Some(summarise(rt_results))
    /\ rt_exit' = Some(ExitCode(rt_results))
    /\ rt_pc' = "done"
    /\ UNCHANGED <<rt_args_suite, rt_profile_suites, rt_default_suites, rt_suites_cfg,
                   rt_selected, rt_si, rt_ci, rt_suite_results, rt_results, rt_launched>>
    /\ UNCHANGED notRT

(***************************************************************************)
(*                     Properties of run_tests.py                          *)
(***************************************************************************)
\* Every record so far, in the order the commands were run.
RTRecords == rt_results \o rt_suite_results

\* The matrix is well formed for the selection: every selected suite is
\* declared and every command item of it passes run_suite's validation.
RTWellFormed ==
    \A i \in 1..Len(rt_selected) :
        /\ rt_selected[i] \in DOMAIN rt_suites_cfg
        /\ \A j \in 1..Len(rt_suites_cfg[rt_selected[i]]) :
               rt_suites_cfg[rt_selected[i]][j].shape = "ok"

\* The (suite, index) pairs of the selected suites' commands, in selection
\* order and then in commands-list order.
RTExpectedRuns ==
    Concat([i \in 1..Len(rt_selected) |->
              [j \in 1..Len(rt_suites_cfg[rt_selected[i]]) |-> <<rt_selected[i], j>>]])

IsPrefix(s, t) == Len(s) <= Len(t) /\ \A i \in 1..Len(s) : s[i] = t[i]

C2_RunOrder ==
    (rt_pc # "start" /\ RTWellFormed) =>
        LET ran  == [i \in 1..Len(rt_launched) |->
                        <<rt_launched[i].suite, rt_launched[i].index>>]
            recs == [i \in 1..Len(rt_results) |->
                        <<rt_results[i].suite, rt_results[i].name>>]
        IN  /\ IsPrefix(ran, RTExpectedRuns)
            /\ IsPrefix(recs, RTExpectedRuns)
            /\ rt_pc # "exit"
            /\ rt_pc = "done" => (ran = RTExpectedRuns /\ recs = RTExpectedRuns)

\* C2 witness: a finished run of two suites in which a command that failed or
\* timed out was followed by further commands.
C2_Witness ==
    /\ rt_pc = "done"
    /\ RTWellFormed
    /\ Len(rt_selected) = 2
    /\ rt_selected[1] # rt_selected[2]
    /\ Len(rt_results) >= 3
    /\ rt_results[1].status # "passed"
    /\ rt_results[2].suite = rt_selected[1]
    /\ rt_results[3].suite = rt_selected[2]

\* C3: main returns 0 iff every recorded command passed (also when none was
\* recorded) and 1 otherwise; the failures count printed by summarise is the
\* number of records that are not 'passed'.
C3_ExitCode ==
    rt_pc = "done" =>
        LET bad == {i \in 1..Len(rt_launched) :
                      rt_launched[i].timed_out \/ rt_launched[i].rc # Some(0)}
        IN  /\ rt_exit \in {Some(0), Some(1)}
            /\ rt_exit = Some(0) <=> bad = {}
            /\ rt_exit = Some(0) <=>
                  \A i \in 1..Len(rt_results) : rt_results[i].status = "passed"
            /\ ~IsNone(rt_summary)
            /\ Val(rt_summary).total = Len(rt_results)
            /\ Val(rt_summary).failures = Cardinality(bad)
            /\ Val(rt_summary).failures =
                  Cardinality({i \in 1..Len(rt_results) : rt_results[i].status # "passed"})

\* C3 witness: main returned 1 for a run whose only non-passed command timed out.
C3_Witness ==
    /\ rt_pc = "done"
    /\ rt_exit = Some(1)
    /\ Len(rt_results) >= 2
    /\ \E i \in 1..Len(rt_results) : rt_results[i].status = "timeout"
    /\ \A i \in 1..Len(rt_results) : rt_results[i].status # "failed"
    /\ Val(rt_summary).failures = 1

\* The commands of suites before the one the loop is at were run, as were the
\* commands of that suite before the one the loop is at.
RTEarlierRan ==
    /\ rt_si = 2
    /\ rt_ci = 2
    /\ Len(rt_launched) >= 2
    /\ rt_launched[1].suite = rt_selected[1]
    /\ rt_launched[Len(rt_launched)].suite = rt_selected[2]
    /\ rt_launched[Len(rt_launched)].index = 1

\* C21: main writes the results file exactly once, after the last selected
\* suite finished; when the validation of a selected suite fails with
\* SystemExit, no results file is written, though the commands before the
\* failing one have been run.
C21_ResultsWrittenOnce ==
    /\ [](/\ Len(rt_written) <= 1
          /\ rt_pc = "done" =>
                /\ rt_written = <<rt_results>>
                /\ rt_si > Len(rt_selected)
                /\ Len(rt_launched) = Len(RTExpectedRuns)
                /\ Len(rt_results) = Len(rt_launched)
          /\ rt_pc # "done" => rt_written = <<>>
          /\ rt_pc = "exit" => (rt_exit = None /\ rt_summary = None))
    /\ [][rt_written' # rt_written =>
            /\ rt_pc = "suite"
            /\ rt_si > Len(rt_selected)
            /\ rt_pc' = "done"
            /\ rt_launched' = rt_launched]_vars
    /\ [][rt_pc = "done" => rt_written' = rt_written]_vars

\* C21 witness: the second command of the second selected suite failed
\* validation after the first suite's commands and the first command of the
\* second suite had been run; nothing was written.
C21_Witness ==
    /\ rt_pc = "exit"
    /\ RTEarlierRan
    /\ Len(rt_selected) = 2
    /\ rt_suites_cfg[rt_selected[2]][2].shape # "ok"
    /\ rt_written = <<>>

RTNext == RTSelect \/ RTBeginSuite \/ RTRunCommand \/ RTEndSuite \/ RTFinish

(***************************************************************************)
(*                compare_results.py : the results comparator              *)
(***************************************************************************)
\* Number of distinct (suite, name) keys in the results files drawn; key k
\* stands for the k-th pair in sorted order.
NumKeys == 2

CmpKeys == 1..NumKeys

\* The entries drawn for a key of a results file: status and duration_s.
CmpEntries == {[status |-> "passed",  duration_s |-> 0],
               [status |-> "passed",  duration_s |-> 2],
               [status |-> "failed",  duration_s |-> 1],
               [status |-> "timeout", duration_s |-> 1]}

\* The indexes a loadable results file can hold: a mapping from some keys to
\* their entry.
CmpIndexes == UNION {[K -> CmpEntries] : K \in SUBSET CmpKeys}

\* The results files drawn. A file that load_results rejects is "missing",
\* "not_list" (the JSON payload is not a list) or "bad_entry" (an entry is not
\* a mapping).
CmpFiles == {[shape |-> "ok", index |-> ix] : ix \in CmpIndexes}
            \cup {[shape |-> sh, index |-> EmptyMap] :
                     sh \in {"missing", "not_list", "bad_entry"}}

\* A duration_s that float() rejects: null, or a text that is not a number.
NonNumeric == -1

\* The entries drawn when the files need not come from run_tests.py: those of
\* CmpEntries and one whose duration_s is not a number.
CmpEntriesAny == CmpEntries \cup {[status |-> "passed", duration_s |-> NonNumeric]}

CmpIndexesAny == UNION {[K -> CmpEntriesAny] : K \in SUBSET CmpKeys}

\* The results files drawn when they need not come from run_tests.py: also a
\* file that is not JSON ("invalid_json": json.loads raises JSONDecodeError).
CmpFilesAny == {[shape |-> "ok", index |-> ix] : ix \in CmpIndexesAny}
               \cup {[shape |-> sh, index |-> EmptyMap] :
                        sh \in {"missing", "not_list", "bad_entry", "invalid_json"}}

\* load_results lines 14-27: how loading the file ends: "ok", "exit"
\* (SystemExit) or "error" (JSONDecodeError at line 17).
load_results(file) ==
    CASE file.shape = "ok" -> "ok"
      [] file.shape = "invalid_json" -> "error"
      [] OTHER -> "exit"

\* compare lines 47-48 and 57-58, describe line 34: float() raises on a
\* duration_s that is not a number, for a key of the patched run only (in
\* describe) or of both runs.
float_raises(base, patch) ==
    IF IsNone(base) THEN Val(patch).duration_s = NonNumeric
    ELSE IF IsNone(patch) THEN FALSE
    ELSE Val(base).duration_s = NonNumeric \/ Val(patch).duration_s = NonNumeric

RECURSIVE SortedSeq(_)
\* sorted(S) for a set of keys.
SortedSeq(S) ==
    IF S = {} THEN <<>>
    ELSE LET m == CHOOSE x \in S : \A y \in S : x <= y
         IN  <<m>> \o SortedSeq(S \ {m})

Abs(x) == IF x < 0 THEN -x ELSE x

\* A mutant of CompareKey: a test that fails in both runs is not counted.
CompareKey_StillFailingFree(base, patch) ==
    IF IsNone(base) THEN [add |-> 0, line |-> Some("+")]
    ELSE IF IsNone(patch) THEN [add |-> 1, line |-> Some("-")]
    ELSE IF Val(base).status # Val(patch).status THEN [add |-> 1, line |-> Some("!")]
    ELSE [add |-> 0, line |-> None]

\* compare lines 44-83: what one key adds to the regression count and the line
\* it prints (None when it prints nothing). base and patch are None when the
\* key is absent from that run.
CompareKey(base, patch) ==
    IF IsNone(base) THEN [add |-> 0, line |-> Some("+")]
    ELSE IF IsNone(patch) THEN [add |-> 1, line |-> Some("-")]
    ELSE LET b == Val(base)
             q == Val(patch)
             delta == q.duration_s - b.duration_s
         IN  IF b.status = "passed" /\ q.status = "passed"
             THEN [add |-> 0, line |-> IF Abs(delta) >= 1 THEN Some("=") ELSE None]
             ELSE IF b.status # q.status THEN [add |-> 1, line |-> Some("!")]
             ELSE IF q.status # "passed" THEN [add |-> 1, line |-> Some("~")]
             ELSE [add |-> 0, line |-> None]

\* compare lines 85-88: the summary line.
SummaryLine(regressions) ==
    IF regressions # 0 THEN <<"regressions detected", regressions>>
    ELSE <<"no regressions detected", 0>>

\* mapping.get(key)
Get(mapping, key) == IF key \in DOMAIN mapping THEN Some(mapping[key]) ELSE None

CmpInit ==
    /\ cmp_pc = "start"
    /\ cmp_files \in [baseline : CmpFiles, patched : CmpFiles]
    /\ cmp_baseline = EmptyMap
    /\ cmp_patched = EmptyMap
    /\ cmp_all_keys = <<>>
    /\ cmp_i = 0
    /\ cmp_regressions = 0
    /\ cmp_out = <<>>
    /\ cmp_summary = None
    /\ cmp_exit = None

\* main lines 109-110 and compare lines 41-42: both files are loaded, the
\* baseline first (SystemExit if load_results rejects one, JSONDecodeError if
\* one is not JSON), the keys are united and sorted.
CmpLoad ==
    /\ cmp_pc = "start"
    /\ IF load_results(cmp_files.baseline) = "ok" /\ load_results(cmp_files.patched) = "ok"
       THEN /\ cmp_baseline' = cmp_files.baseline.index
            /\ cmp_patched' = cmp_files.patched.index
            /\ cmp_all_keys' = SortedSeq(DOMAIN cmp_files.baseline.index
                                           \cup DOMAIN cmp_files.patched.index)
            /\ cmp_i' = 1
            /\ cmp_pc' = "loop"
       ELSE /\ cmp_pc' = IF load_results(cmp_files.baseline) # "ok"
                         THEN load_results(cmp_files.baseline)
                         ELSE load_results(cmp_files.patched)
            /\ UNCHANGED <<cmp_baseline, cmp_patched, cmp_all_keys, cmp_i>>
    /\ UNCHANGED <<cmp_files, cmp_regressions, cmp_out, cmp_summary, cmp_exit>>
    /\ UNCHANGED notCmp

\* compare lines 43-83: one iteration of the loop over all_keys; the
\* exception float() raises on a duration_s that is not a number leaves main.
CmpStep ==
    /\ cmp_pc = "loop"
    /\ cmp_i <= Len(cmp_all_keys)
    /\ LET key == cmp_all_keys[cmp_i]
           res == CompareKey(Get(cmp_baseline, key), Get(cmp_patched, key))
       IN  IF float_raises(Get(cmp_baseline, key), Get(cmp_patched, key))
           THEN /\ cmp_pc' = "error"
                /\ UNCHANGED <<cmp_regressions, cmp_out, cmp_i>>
           ELSE /\ cmp_regressions' = cmp_regressions + res.add
                /\ cmp_out' = IF IsNone(res.line) THEN cmp_out
                              ELSE Append(cmp_out, <<Val(res.line), key>>)
                /\ cmp_i' = cmp_i + 1
                /\ UNCHANGED cmp_pc
    /\ UNCHANGED <<cmp_files, cmp_baseline, cmp_patched, cmp_all_keys,
                   cmp_summary, cmp_exit>>
    /\ UNCHANGED notCmp

\* compare lines 85-88 and main line 112: the summary is printed, main returns 0.
CmpFinish ==
    /\ cmp_pc = "loop"
    /\ cmp_i > Len(cmp_all_keys)
    /\ cmp_summary' = Some(SummaryLine(cmp_regressions))
    /\ cmp_exit' = Some(0)
    /\ cmp_pc' = "done"
    /\ UNCHANGED <<cmp_files, cmp_baseline, cmp_patched, cmp_all_keys, cmp_i,
                   cmp_regressions, cmp_out>>
    /\ UNCHANGED notCmp

CmpNext == CmpLoad \/ CmpStep \/ CmpFinish

\* compare_results.main on any two files, written by run_tests.py or not.
CmpInitAny ==
    /\ cmp_pc = "start"
    /\ cmp_files \in [baseline : CmpFilesAny, patched : CmpFilesAny]
    /\ cmp_baseline = EmptyMap
    /\ cmp_patched = EmptyMap
    /\ cmp_all_keys = <<>>
    /\ cmp_i = 0
    /\ cmp_regressions = 0
    /\ cmp_out = <<>>
    /\ cmp_summary = None
    /\ cmp_exit = None

\* Both results files pass load_results.
CmpLoadable == cmp_files.baseline.shape = "ok" /\ cmp_files.patched.shape = "ok"

\* C22: main returns exit status 0 for every pair of loadable results files,
\* whatever number of regressions compare counted; a run ends otherwise only
\* through SystemExit, when a results file is missing, is not a JSON list or
\* contains an entry that is not a mapping.
C22_ExitZeroWhenLoadable ==
    /\ (CmpLoadable /\ cmp_pc \in {"done", "exit", "error"}) =>
          (cmp_pc = "done" /\ cmp_exit = Some(0))
    /\ cmp_pc \in {"exit", "error"} =>
          /\ cmp_pc = "exit"
          /\ \E f \in {cmp_files.baseline, cmp_files.patched} :
                f.shape \in {"missing", "not_list", "bad_entry"}

\* C11: in compare, a key present only in the baseline adds exactly one to the
\* regression count, a key present only in the patched run adds nothing, a key
\* with the same status other than 'passed' in both runs adds exactly one; the
\* keys of the union of both runs are examined once each, in sorted order.
C11_CountPerKey ==
    /\ [](cmp_pc \in {"loop", "done"} =>
            /\ {cmp_all_keys[i] : i \in 1..Len(cmp_all_keys)}
                  = DOMAIN cmp_baseline \cup DOMAIN cmp_patched
            /\ \A i, j \in 1..Len(cmp_all_keys) :
                  i < j => cmp_all_keys[i] < cmp_all_keys[j]
            /\ cmp_i \in 1..(Len(cmp_all_keys) + 1)
            /\ cmp_pc = "done" => cmp_i = Len(cmp_all_keys) + 1)
    /\ [][(cmp_pc = "loop" /\ cmp_i <= Len(cmp_all_keys)) =>
            LET key == cmp_all_keys[cmp_i]
                in_base == key \in DOMAIN cmp_baseline
                in_patch == key \in DOMAIN cmp_patched
            IN  /\ cmp_i' = cmp_i + 1
                /\ cmp_pc' = "loop"
                /\ cmp_all_keys' = cmp_all_keys
                /\ (in_base /\ ~in_patch) => cmp_regressions' = cmp_regressions + 1
                /\ (~in_base /\ in_patch) => cmp_regressions' = cmp_regressions
                /\ (/\ in_base
                    /\ in_patch
                    /\ cmp_baseline[key].status = cmp_patched[key].status
                    /\ cmp_patched[key].status # "passed")
                   => cmp_regressions' = cmp_regressions + 1]_vars

\* C11 witness: a finished comparison of a baseline-only key and a key that
\* fails in both runs.
C11_Witness ==
    /\ cmp_pc = "done"
    /\ DOMAIN cmp_baseline = {1, 2}
    /\ DOMAIN cmp_patched = {2}
    /\ cmp_baseline[2].status = "failed"
    /\ cmp_patched[2].status = "failed"
    /\ cmp_regressions = 2

\* C10: compare prints 'no regressions detected' whenever every key of the
\* baseline is present in the patched run with status 'passed' (so a test that
\* failed or timed out in the baseline and passes in the patched run is no
\* regression).
C10_FixedTestsAreNoRegression ==
    (/\ cmp_pc = "done"
     /\ \A k \in DOMAIN cmp_baseline :
           k \in DOMAIN cmp_patched /\ cmp_patched[k].status = "passed")
    => cmp_summary = Some(<<"no regressions detected", 0>>)

(***************************************************************************)
(*                       manage.py : shared helpers                        *)
(***************************************************************************)
\* Text is a sequence of words and single blanks " "; an environment value or
\* a path is a sequence of path components (a plain value has one component,
\* the empty string none).

\* Path.home()
HomeDir == "/home/user"

\* DEFAULT_MODELSCOPE_CACHE, manage.py line 21.
DEFAULT_MODELSCOPE_CACHE == <<HomeDir, ".cache", "modelscope">>

\* DEFAULT_HF_HOME, manage.py line 22.
DEFAULT_HF_HOME == <<HomeDir, ".cache", "hf">>

\* OFFLINE_ENV_DEFAULTS, manage.py lines 29-35.
OFFLINE_ENV_DEFAULTS ==
    [k \in {"VLLM_USE_MODELSCOPE", "HF_HUB_OFFLINE", "HF_DATASETS_OFFLINE",
            "TRANSFORMERS_OFFLINE", "TRANSFORMERS_NO_ADVISORY_WARNINGS"} |->
        IF k = "VLLM_USE_MODELSCOPE" THEN <<"True">> ELSE <<"1">>]

\* Path.expanduser
ExpandUser(path) ==
    IF path # <<>> /\ Head(path) = "~" THEN <<HomeDir>> \o Tail(path) ELSE path

\* dict.setdefault(key, value), as the resulting mapping.
SetDefault(env, key, value) == env @@ (key :> value)

\* env[key] = value, as the resulting mapping.
SetKey(env, key, value) == (key :> value) @@ env

\* _apply_offline_defaults lines 49 and 54: MODELSCOPE_HOME is only defaulted
\* when MODELSCOPE_CACHE was set, and overwritten when it was not.
apply_offline_defaults_home(env, cache_set, cache_str) ==
    IF cache_set THEN SetDefault(env, "MODELSCOPE_HOME", cache_str)
    ELSE SetKey(env, "MODELSCOPE_HOME", cache_str)

\* _apply_offline_defaults lines 38-58; cache_dir is None or <<path>>.
apply_offline_defaults(env, cache_dir) ==
    LET e1 == env @@ OFFLINE_ENV_DEFAULTS
        cache_value == Get(e1, "MODELSCOPE_CACHE")
        cache_set == ~IsNone(cache_value) /\ Val(cache_value) # <<>>
        cache_str == IF cache_set THEN ExpandUser(Val(cache_value))
                     ELSE ExpandUser(IF IsNone(cache_dir) \/ Val(cache_dir) = <<>>
                                     THEN DEFAULT_MODELSCOPE_CACHE ELSE Val(cache_dir))
        e2 == SetKey(e1, "MODELSCOPE_CACHE", cache_str)
        e3 == apply_offline_defaults_home(e2, cache_set, cache_str)
        e4 == SetDefault(e3, "HF_HOME", ExpandUser(DEFAULT_HF_HOME))
        hf_home == e4["HF_HOME"]
        e5 == SetDefault(e4, "TRANSFORMERS_CACHE", Append(hf_home, "transformers"))
    IN  SetDefault(e5, "HF_DATASETS_CACHE", Append(hf_home, "datasets"))

(***************************************************************************)
(*                           manage.py : serve                             *)
(***************************************************************************)
\* Longest serve.args and --extra-arg lists drawn.
MaxArgs == 1

\* Longest --env list drawn.
MaxOverrides == 2

\* handle_serve lines 260-262: the entrypoint used when the profile has none.
DefaultEntrypoint ==
    <<"python", " ", "-m", " ", "vllm.entrypoints.openai.api_server">>

\* The texts drawn for entrypoints and arguments (no quote characters, which
\* shlex would interpret).
Texts == {<<"a">>, <<"a", " ", "b">>, <<" ", "c", " ", " ", "d", "e">>, <<>>}

RECURSIVE SplitFrom(_, _, _)
\* The tokens of str, given the tokens finished so far and the token being read.
SplitFrom(str, done, cur) ==
    IF str = <<>> THEN (IF cur = <<>> THEN done ELSE Append(done, cur))
    ELSE IF Head(str) = " "
         THEN SplitFrom(Tail(str), IF cur = <<>> THEN done ELSE Append(done, cur), <<>>)
         ELSE SplitFrom(Tail(str), done, Append(cur, Head(str)))

\* shlex.split on a text without quotes: the maximal runs of non-blanks.
ShlexSplit(str) == SplitFrom(str, <<>>, <<>>)

RECURSIVE SplitAll(_)
\* The tokens of every text of a list, in order.
SplitAll(texts) ==
    IF texts = <<>> THEN <<>> ELSE ShlexSplit(Head(texts)) \o SplitAll(Tail(texts))

RECURSIVE ShlexJoin(_)
\* shlex_join lines 227-228: the tokens (none of which needs quoting) separated
\* by single blanks.
ShlexJoin(cmd) ==
    IF cmd = <<>> THEN <<>>
    ELSE IF Len(cmd) = 1 THEN Head(cmd)
    ELSE Head(cmd) \o <<" ">> \o ShlexJoin(Tail(cmd))

\* A mutant of AssembleCmd: the --extra-arg tokens come before serve.args.
AssembleCmd_ExtraFirst(entrypoint, serve_args, extra_arg) ==
    ShlexSplit(entrypoint) \o SplitAll(extra_arg) \o SplitAll(serve_args)

\* handle_serve lines 266-281: the command tokens.
AssembleCmd(entrypoint, serve_args, extra_arg) ==
    ShlexSplit(entrypoint) \o SplitAll(serve_args) \o SplitAll(extra_arg)

\* The profile names drawn, in sorted order.
ProfileOrder == <<"p", "q", "r">>

\* ", ".join(sorted(profiles)) for the names given.
RECURSIVE JoinComma(_)
JoinComma(names) ==
    IF names = <<>> THEN <<>>
    ELSE IF Len(names) = 1 THEN names
    ELSE <<Head(names), ", ">> \o JoinComma(Tail(names))

SortedNames(names) == SelectSeq(ProfileOrder, LAMBDA n : n \in names)

\* A mutant of ensure_profile_exit: any name is accepted.
ensure_profile_exit_Lenient(name, names) == None

\* ensure_profile lines 219-224: the SystemExit it raises with the available
\* names when the name is not a profile, None when it returns the profile.
ensure_profile_exit(name, names) ==
    IF name \notin names
    THEN Some(<<"Unknown profile '", name, "'. Available: ">>
              \o JoinComma(SortedNames(names)))
    ELSE None

\* handle_serve lines 283-289: profile.env, then serve.env on top of it.
EnvData(profile_env, serve_env) == serve_env @@ profile_env

\* The position of the first "=" in an --env item, 0 when there is none.
FirstEq(item) ==
    IF \E i \in 1..Len(item) : item[i] = "="
    THEN CHOOSE i \in 1..Len(item) :
            item[i] = "=" /\ \A j \in 1..(i - 1) : item[j] # "="
    ELSE 0

\* apply_env lines 235-239: the item is KEY=VALUE with a non-empty key.
ValidOverride(item) == FirstEq(item) > 1

\* item.split("=", 1): the key (one word) and the value (the rest).
OverrideKey(item) == item[1]

OverrideValue(item) == SubSeq(item, FirstEq(item) + 1, Len(item))

RECURSIVE ApplyOverrides(_, _)
\* apply_env lines 234-240: the overrides applied in order; None (SystemExit)
\* at the first invalid one.
ApplyOverrides(env, overrides) ==
    IF overrides = <<>> THEN Some(env)
    ELSE IF ~ValidOverride(Head(overrides)) THEN None
    ELSE ApplyOverrides(SetKey(env, OverrideKey(Head(overrides)),
                               OverrideValue(Head(overrides))),
                        Tail(overrides))

\* apply_env lines 234-239: the message of the SystemExit raised at the first
\* invalid item.
RECURSIVE InvalidOverride(_)
InvalidOverride(overrides) ==
    IF ValidOverride(Head(overrides)) THEN InvalidOverride(Tail(overrides))
    ELSE <<"Invalid env override '">> \o Head(overrides)
         \o (IF FirstEq(Head(overrides)) = 0 THEN <<"', expected KEY=VALUE">>
             ELSE <<"', missing key">>)

\* apply_env lines 231-241.
apply_env(environ, base, overrides) == ApplyOverrides(base @@ environ, overrides)

\* The --env items drawn.
OverrideItems == {<<"FOO", "=", "o1">>, <<"FOO", "=", "o2", "=", "x">>,
                  <<"MODELSCOPE_HOME", "=", "o3">>, <<"FOO">>, <<"=", "o1">>}

\* Mappings from a subset of the keys of f to the value f gives.
SubMaps(f) == {[k \in K |-> f[k]] : K \in SUBSET DOMAIN f}

\* The process environments drawn.
Environs == SubMaps([k \in {"FOO", "MODELSCOPE_HOME", "HF_HUB_OFFLINE"} |-> <<"proc">>])

\* The profile env blocks drawn.
ProfileEnvs == SubMaps("FOO" :> <<"top">> @@ "MODELSCOPE_HOME" :> <<"top">>
                       @@ "MODELSCOPE_CACHE" :> <<"~", "top">>)

\* The serve.env blocks drawn.
ServeEnvs == SubMaps("FOO" :> <<"serve">> @@ "MODELSCOPE_CACHE" :> <<"~", "serve">>)

\* The state before handle_serve runs, for given arguments and profile.
SvStart(args, known, profile, environ) ==
    /\ sv_pc = "start"
    /\ sv_args = args
    /\ sv_known = known
    /\ sv_profile = profile
    /\ sv_environ = environ
    /\ sv_cmd = <<>>
    /\ sv_env = EmptyMap
    /\ sv_out = <<>>
    /\ sv_launched = None
    /\ sv_rc = None
    /\ sv_exit = None

\* serve runs on any command inputs, with few environment inputs.
SvInitCmd ==
    \E pc, dr \in BOOLEAN :
    \E extra \in SeqUpTo(Texts, MaxArgs) :
    \E ov \in {<<>>, <<<<"FOO", "=", "o1">>>>, <<<<"FOO">>>>} :
    \E entry \in {None} \cup {Some(t) : t \in Texts} :
    \E sargs \in SeqUpTo(Texts, MaxArgs) :
        SvStart([profile |-> "p", print_command |-> pc, dry_run |-> dr,
                 extra_arg |-> extra, env |-> ov],
                {"p"},
                [entrypoint |-> entry, args |-> sargs,
                 env |-> EmptyMap, serve_env |-> EmptyMap],
                "FOO" :> <<"proc">>)

\* serve runs on any environment inputs, with the default command.
SvInitEnv ==
    \E dr \in BOOLEAN :
    \E ov \in SeqUpTo(OverrideItems, MaxOverrides) :
    \E penv \in ProfileEnvs :
    \E senv \in ServeEnvs :
    \E environ \in Environs :
        SvStart([profile |-> "p", print_command |-> FALSE, dry_run |-> dr,
                 extra_arg |-> <<>>, env |-> ov],
                {"p"},
                [entrypoint |-> None, args |-> <<>>, env |-> penv, serve_env |-> senv],
                environ)

\* handle_serve lines 255-293: the profile is looked up, then the command and
\* the environment are assembled; SystemExit when the profile is unknown or
\* an --env item is invalid.
SvBuild ==
    /\ sv_pc = "start"
    /\ LET unknown == ensure_profile_exit(sv_args.profile, sv_known)
           entrypoint == IF IsNone(sv_profile.entrypoint) THEN DefaultEntrypoint
                         ELSE Val(sv_profile.entrypoint)
           env_data == apply_offline_defaults(
                           EnvData(sv_profile.env, sv_profile.serve_env), None)
           env == apply_env(sv_environ, env_data, sv_args.env)
       IN  IF ~IsNone(unknown)
           THEN /\ sv_pc' = "exit"
                /\ sv_exit' = unknown
                /\ UNCHANGED <<sv_cmd, sv_env>>
           ELSE /\ sv_cmd' = AssembleCmd(entrypoint, sv_profile.args, sv_args.extra_arg)
                /\ IF IsNone(env)
                   THEN /\ sv_pc' = "exit"
                        /\ sv_exit' = Some(InvalidOverride(sv_args.env))
                        /\ UNCHANGED sv_env
                   ELSE /\ sv_pc' = "built"
                        /\ sv_env' = Val(env)
                        /\ UNCHANGED sv_exit
    /\ UNCHANGED <<sv_args, sv_known, sv_profile, sv_environ, sv_out, sv_launched, sv_rc>>
    /\ UNCHANGED notSv

\* handle_serve lines 295-298: the command is printed if asked for; with
\* --dry-run the handler returns 0 here.
SvPrint ==
    /\ sv_pc = "built"
    /\ sv_out' = IF sv_args.print_command \/ sv_args.dry_run
                 THEN Append(sv_out, <<"command", ShlexJoin(sv_cmd)>>)
                 ELSE sv_out
    /\ IF sv_args.dry_run
       THEN sv_pc' = "done" /\ sv_rc' = Some(0)
       ELSE sv_pc' = "ready" /\ UNCHANGED sv_rc
    /\ UNCHANGED <<sv_args, sv_known, sv_profile, sv_environ, sv_cmd, sv_env,
                   sv_launched, sv_exit>>
    /\ UNCHANGED notSv

\* handle_serve lines 300-301 and run_subprocess lines 244-246: the command is
\* echoed and launched; a non-zero exit raises CalledProcessError.
SvLaunch ==
    /\ sv_pc = "ready"
    /\ sv_out' = Append(sv_out, <<"[exec]", ShlexJoin(sv_cmd)>>)
    /\ sv_launched' = Some([cmd |-> sv_cmd, env |-> sv_env])
    /\ \E ok \in BOOLEAN :
          IF ok THEN sv_pc' = "done" /\ sv_rc' = Some(0)
          ELSE sv_pc' = "error" /\ UNCHANGED sv_rc
    /\ UNCHANGED <<sv_args, sv_known, sv_profile, sv_environ, sv_cmd, sv_env, sv_exit>>
    /\ UNCHANGED notSv

SvNext == SvBuild \/ SvPrint \/ SvLaunch

(***************************************************************************)
(*                     Properties of manage.py serve                       *)
(***************************************************************************)
RECURSIVE JoinBlank(_)
\* The texts of a list written one after the other, a blank between them.
JoinBlank(texts) ==
    IF texts = <<>> THEN <<>>
    ELSE IF Len(texts) = 1 THEN Head(texts)
    ELSE Head(texts) \o <<" ">> \o JoinBlank(Tail(texts))

\* A text with its leading and trailing blanks dropped and every run of
\* blanks reduced to one.
Squeeze(str) ==
    LET keep == {i \in 1..Len(str) :
                    \/ str[i] # " "
                    \/ /\ i > 1
                       /\ str[i - 1] # " "
                       /\ \E j \in (i + 1)..Len(str) : str[j] # " "}
        nth(n) == CHOOSE i \in keep : Cardinality({j \in keep : j <= i}) = n
    IN  [n \in 1..Cardinality(keep) |-> str[nth(n)]]

\* The entrypoint, the serve.args and the --extra-arg texts, in that order.
SvCommandText ==
    JoinBlank(<<IF IsNone(sv_profile.entrypoint) THEN DefaultEntrypoint
                ELSE Val(sv_profile.entrypoint)>>
              \o sv_profile.args \o sv_args.extra_arg)

\* C7: serve --dry-run only prints the assembled command and returns 0 without
\* launching a subprocess; with --print-command and no --dry-run the command is
\* printed and then launched; the printed command is the entrypoint tokens, then
\* the serve.args tokens, then the --extra-arg tokens, in order.
C7_DryRunAndPrintCommand ==
    LET line == <<"command", Squeeze(SvCommandText)>>
    IN  /\ sv_args.dry_run =>
              /\ IsNone(sv_launched)
              /\ sv_pc \in {"start", "built", "done", "exit"}
              /\ sv_pc = "done" => (sv_rc = Some(0) /\ sv_out = <<line>>)
        /\ (~sv_args.dry_run /\ sv_args.print_command) =>
              /\ sv_pc = "ready" => sv_out = <<line>>
              /\ ~IsNone(sv_launched) =>
                    /\ Len(sv_out) = 2
                    /\ sv_out[1] = line
                    /\ sv_out[2] = <<"[exec]", line[2]>>
                    /\ ShlexJoin(Val(sv_launched).cmd) = line[2]
        /\ (~sv_args.dry_run /\ sv_pc \in {"done", "error"}) => ~IsNone(sv_launched)

\* C7 witness: a finished dry run of a profile with serve.args and --extra-arg
\* texts of several tokens.
C7_Witness ==
    /\ sv_args.dry_run
    /\ sv_pc = "done"
    /\ sv_profile.entrypoint = Some(<<"a", " ", "b">>)
    /\ sv_profile.args = <<<<" ", "c", " ", " ", "d", "e">>>>
    /\ sv_args.extra_arg = <<<<"a">>>>
    /\ sv_out = <<<<"command", <<"a", " ", "b", " ", "c", " ", "d", "e", " ", "a">>>>>>

\* The indexes of the --env items that set key.
OverridesOf(key) ==
    {i \in 1..Len(sv_args.env) :
        ValidOverride(sv_args.env[i]) /\ OverrideKey(sv_args.env[i]) = key}

\* In how many places key is set: --env, serve.env, the profile's env, the
\* process environment.
SvPlaces(key) ==
    (IF OverridesOf(key) # {} THEN 1 ELSE 0)
    + (IF key \in DOMAIN sv_profile.serve_env THEN 1 ELSE 0)
    + (IF key \in DOMAIN sv_profile.env THEN 1 ELSE 0)
    + (IF key \in DOMAIN sv_environ THEN 1 ELSE 0)

\* The value the precedence rule gives key: the last --env override, else
\* serve.env, else the profile's env, else the process environment.
SvPrecedence(key) ==
    IF OverridesOf(key) # {}
    THEN OverrideValue(sv_args.env[CHOOSE i \in OverridesOf(key) :
                                       \A j \in OverridesOf(key) : j <= i])
    ELSE IF key \in DOMAIN sv_profile.serve_env THEN sv_profile.serve_env[key]
    ELSE IF key \in DOMAIN sv_profile.env THEN sv_profile.env[key]
    ELSE sv_environ[key]

SvKeys == DOMAIN sv_profile.serve_env \cup DOMAIN sv_profile.env \cup DOMAIN sv_environ
          \cup {OverrideKey(sv_args.env[i]) : i \in {j \in 1..Len(sv_args.env) :
                                                        ValidOverride(sv_args.env[j])}}

\* C8: for a key set in more than one place the launched process gets the
\* value of the last --env override, else serve.env's, else the profile's env's,
\* else the process environment's (a path value possibly with ~ expanded); an
\* --env item without '=' or with an empty key aborts before any launch.
C8_EnvPrecedence ==
    /\ (\E i \in 1..Len(sv_args.env) : ~ValidOverride(sv_args.env[i])) =>
          (sv_pc \in {"start", "exit"} /\ IsNone(sv_launched))
    /\ ~IsNone(sv_launched) =>
          \A key \in SvKeys :
              SvPlaces(key) >= 2 =>
                  /\ key \in DOMAIN Val(sv_launched).env
                  /\ Val(sv_launched).env[key]
                        \in {SvPrecedence(key), ExpandUser(SvPrecedence(key))}

(***************************************************************************)
(*                       manage.py : kv-calibrate                          *)
(***************************************************************************)
\* The working directory, against which Path.resolve completes relative paths.
Cwd == "/work"

\* The first components of the absolute paths drawn.
AbsoluteRoots == {HomeDir, Cwd, "/"}

\* Path.resolve on the paths drawn (no symlinks, no "..").
Resolve(path) ==
    IF path # <<>> /\ Head(path) \in AbsoluteRoots THEN path ELSE <<Cwd>> \o path

\* Path(x).expanduser().resolve()
PathOf(path) == Resolve(ExpandUser(path))

\* Path.parent
Parent(path) == IF Len(path) > 1 THEN SubSeq(path, 1, Len(path) - 1) ELSE path

\* DEFAULT_KV_ROOT, manage.py line 24.
DEFAULT_KV_ROOT == <<HomeDir, "kvdata">>

\* KV_CACHE_FILENAME, manage.py line 25.
KV_CACHE_FILENAME == "kv_cache_scales.json"

\* RUNNER_FILENAME, manage.py line 23.
RUNNER_FILENAME == "_modelscope_runner.py"

\* The default llm-compressor checkout, manage.py lines 948 and 984.
DefaultRepo == <<HomeDir, ".local", "share", "llm-compressor">>

\* The default quantization script, manage.py lines 953 and 994.
DefaultScript ==
    <<"examples", "quantization_non_uniform", "quantization_multiple_modifiers.py">>

\* The default calibration file below a KV root, manage.py lines 938 and 969.
DefaultCalib == <<"calib", "snippets.jsonl">>

\* The default number of calibration samples, manage.py lines 943 and 971.
DefaultSamples == 512

\* The default sequence length, manage.py lines 944 and 991.
DefaultSeqLen == 4096

\* The model identifiers drawn, as typed.
ModelIds == {"org/m", " org/m ", ""}

\* _normalize_model_id lines 96-97: str.strip, over the identifiers drawn.
normalize_model_id(model_id) ==
    CASE model_id = " org/m " -> "org/m" [] OTHER -> model_id

\* _safe_model_key lines 100-103: every character other than alphanumerics,
\* '-', '_' and '.' becomes '_', over the identifiers drawn.
safe_model_key(model_id) ==
    CASE normalize_model_id(model_id) = "org/m" -> "org_m"
      [] OTHER -> normalize_model_id(model_id)

\* base / name; joining the empty name leaves the path as it is.
Join(base, name) == IF name = "" THEN base ELSE Append(base, name)

\* _model_cache_root lines 106-108, with the default base.
model_cache_root(model_id) == Join(DEFAULT_MODELSCOPE_CACHE, safe_model_key(model_id))

\* _kv_model_root lines 111-113, with the default base.
kv_model_root(model_id) == Join(DEFAULT_KV_ROOT, safe_model_key(model_id))

\* `x or default` on an optional path: None and the empty string are falsy.
OrPath(x, default) == IF IsNone(x) \/ Val(x) = <<>> THEN default ELSE Val(x)

\* `x or default` on an optional integer: None and 0 are falsy.
OrInt(x, default) == IF IsNone(x) \/ Val(x) = 0 THEN default ELSE Val(x)

\* section.get(key, default)
GetOr(x, default) == IF IsNone(x) THEN default ELSE Val(x)

\* The decimal digit d as a character.
Digit(d) == <<"0", "1", "2", "3", "4", "5", "6", "7", "8", "9">>[d + 1]

RECURSIVE Str(_)
\* str(n) for a natural number: its decimal digits.
Str(n) == IF n < 10 THEN <<Digit(n)>> ELSE Append(Str(n \div 10), Digit(n % 10))

\* A kv_calibration section without any key but model_id.
BareSection(model_id) ==
    [model_id |-> model_id, output |-> None, calib_data |-> None, samples |-> None,
     seq_len |-> None, cache_dir |-> None, llm_compressor_repo |-> None,
     quantization_script |-> None, quant_args |-> <<>>]

\* handle_kv_calibrate lines 934-957: the section built from the arguments
\* when no profile is named.
ModelSection(args) ==
    LET model_id == normalize_model_id(Val(args.model))
    IN  [model_id |-> model_id,
         output |-> Some(PathOf(OrPath(args.output,
                            Append(kv_model_root(model_id), KV_CACHE_FILENAME)))),
         calib_data |-> Some(PathOf(OrPath(args.calib_data,
                            kv_model_root(model_id) \o DefaultCalib))),
         samples |-> Some(OrInt(args.samples, DefaultSamples)),
         seq_len |-> Some(OrInt(args.seq_len, DefaultSeqLen)),
         cache_dir |-> Some(PathOf(OrPath(args.cache_dir, model_cache_root(model_id)))),
         llm_compressor_repo |-> Some(PathOf(OrPath(args.llm_compressor_repo, DefaultRepo))),
         quantization_script |-> Some(OrPath(args.quant_script, DefaultScript)),
         quant_args |-> args.quant_arg]

\* handle_kv_calibrate lines 916-957: None when the handler raises SystemExit,
\* else the section, the model id and the cache directory it starts with.
ResolveSection(args, profiles, environ) ==
    IF IsNone(args.profile) /\ IsNone(args.model) THEN None
    ELSE IF ~IsNone(args.profile)
    THEN IF Val(args.profile) \notin DOMAIN profiles THEN None
         ELSE LET section == profiles[Val(args.profile)].kv_calibration
              IN  IF IsNone(section) THEN None
                  ELSE IF normalize_model_id(Val(section).model_id) = "" THEN None
                  ELSE Some([section |-> Val(section),
                             model_id |-> normalize_model_id(Val(section).model_id),
                             cache_dir |-> PathOf(GetOr(Val(section).cache_dir,
                                               GetOr(Get(environ, "MODELSCOPE_CACHE"),
                                                     DEFAULT_MODELSCOPE_CACHE)))])
    ELSE Some([section |-> ModelSection(args),
               model_id |-> normalize_model_id(Val(args.model)),
               cache_dir |-> PathOf(OrPath(args.cache_dir,
                                 model_cache_root(normalize_model_id(Val(args.model)))))])

\* handle_kv_calibrate lines 916-928: the SystemExit raised when no section
\* can be taken from the arguments.
ResolveExit(args, profiles) ==
    IF IsNone(args.profile) /\ IsNone(args.model)
    THEN Some(<<"kv-calibrate requires --profile or --model">>)
    ELSE IF ~IsNone(args.profile)
    THEN IF Val(args.profile) \notin DOMAIN profiles
         THEN ensure_profile_exit(Val(args.profile), DOMAIN profiles)
         ELSE IF IsNone(profiles[Val(args.profile)].kv_calibration)
         THEN Some(<<"Profile '", Val(args.profile), "' missing 'kv_calibration' mapping">>)
         ELSE Some(<<"kv_calibration.model_id must be provided">>)
    ELSE None

\* _ensure_podman_volume lines 165-174: the volumes afterwards, when
\* `podman volume create` answers create_ok.
ensure_podman_volume(volumes, name, podman, create_ok) ==
    IF podman /\ name \in volumes THEN volumes
    ELSE IF podman /\ create_ok THEN volumes \cup {name}
    ELSE volumes

\* An entry of the operations log: the operation, whether it succeeded, the
\* path it worked on and a count (0 where there is none).
Ev(op, ok, path, n) == [op |-> op, ok |-> ok, path |-> path, n |-> n]

\* A mutant of reuse_output: --force is ignored.
reuse_output_IgnoreForce(exists, force) == exists

\* handle_kv_calibrate line 965: the existing output is reused.
reuse_output(exists, force) == exists /\ ~force

\* A mutant of run_subprocess: the exit status is not checked.
run_subprocess_Unchecked(ok) == TRUE

\* run_subprocess lines 244-246: subprocess.run(check=True) returns normally
\* only when the command exits with status zero.
run_subprocess(ok) == ok

\* The files _synthesize_transformer_files makes sure exist, lines 354-398.
SynthesizedNames ==
    {"config.json", "tokenizer_config.json", "special_tokens_map.json",
     "generation_config.json", "preprocessor_config.json", "added_tokens.json"}

\* _install_llm_compressor_deps lines 723-765: the operations logged and whether
\* one of them raised, given the exit status of each command.
install_llm_compressor_deps(repo_path, un_ok, in_ok, ed_ok, ch_ok) ==
    LET l1 == <<Ev("uninstall", un_ok, <<>>, 0), Ev("install", in_ok, <<>>, 0)>>
        l2 == Append(l1, Ev("install_editable", ed_ok, repo_path, 0))
        l3 == Append(l2, Ev("check_deps", ch_ok, <<>>, 0))
    IN  IF ~run_subprocess(in_ok) THEN [log |-> l1, raised |-> TRUE]
        ELSE IF ~run_subprocess(ed_ok) THEN [log |-> l2, raised |-> TRUE]
        ELSE [log |-> l3, raised |-> ~run_subprocess(ch_ok)]


\* The state before handle_kv_calibrate runs.
KvStart(args, profiles, environ, fs, podman, volumes) ==
    /\ kv_pc = "start"
    /\ kv_args = args
    /\ kv_profiles = profiles
    /\ kv_environ = environ
    /\ kv_fs0 = fs
    /\ kv_fs = fs
    /\ kv_podman = podman
    /\ kv_volumes = volumes
    /\ kv_loc = KvNoLocals
    /\ kv_log = <<>>
    /\ kv_launched = None
    /\ kv_rc = None
    /\ kv_exit = None

\* The output file named by the profile drawn.
ProfileOutput == <<"~", "kv", "scales.json">>

\* The files whose presence is drawn: the output of either way of calling, the
\* default calibration file of the model, the llm-compressor checkout and its
\* quantization script.
KvFiles ==
    {PathOf(ProfileOutput),
     Append(kv_model_root("org/m"), KV_CACHE_FILENAME),
     kv_model_root("org/m") \o DefaultCalib,
     DefaultRepo,
     DefaultRepo \o DefaultScript}

\* The filesystems drawn: the script lives inside the checkout.
KvFilesystems ==
    {fs \in SUBSET KvFiles : (DefaultRepo \o DefaultScript) \in fs => DefaultRepo \in fs}

\* kv-calibrate runs with any flags on any filesystem, by profile or by model.
KvInitRun ==
    \E force, skip_deps, no_volumes, podman, by_profile \in BOOLEAN :
    \E fs \in KvFilesystems :
        KvStart([KvNoArgs EXCEPT !.profile = IF by_profile THEN Some("p") ELSE None,
                                 !.model = IF by_profile THEN None ELSE Some(" org/m "),
                                 !.force = force, !.skip_deps = skip_deps,
                                 !.no_volumes = no_volumes],
                "p" :> [kv_calibration |->
                            Some([BareSection("org/m") EXCEPT !.output = Some(ProfileOutput)])],
                EmptyMap, fs, podman, {})

\* The optional integers drawn for an option that takes the value n.
OptInt(n) == {None, Some(n)}

\* The optional paths drawn for an option.
OptPath(path) == {None, Some(path)}

\* The kv_calibration sections drawn for the profile.
KvSections ==
    {[BareSection(" org/m ") EXCEPT !.samples = sa, !.seq_len = sl, !.output = ou,
                                    !.calib_data = ca, !.cache_dir = cd] :
        sa \in OptInt(256), sl \in OptInt(1024), ou \in OptPath(ProfileOutput),
        ca \in OptPath(<<"~", "kv", "calib.jsonl">>), cd \in OptPath(<<"~", "pcache">>)}

\* kv-calibrate runs with any option values, on a machine with the checkout.
KvInitArgs ==
    \E profile \in {None, Some("p"), Some("q")} :
    \E model \in {None, Some("org/m")} :
    \E samples \in OptInt(100) \cup {Some(0)} :
    \E seq_len \in OptInt(2048) :
    \E output \in OptPath(<<"out", "scales.json">>) :
    \E calib_data \in OptPath(<<"~", "calib.jsonl">>) :
    \E cache_dir \in OptPath(<<"~", "acache">>) :
    \E section \in {None} \cup {Some(s) : s \in KvSections} :
    \E environ \in {EmptyMap, "MODELSCOPE_CACHE" :> <<"~", "ecache">>} :
        /\ (profile = Some("q")) =>
              (samples = None /\ seq_len = None /\ output = None /\ calib_data = None
               /\ cache_dir = None /\ section = None /\ model = None)
        /\ IsNone(section) =>
              (samples = None /\ seq_len = None /\ output = None /\ calib_data = None
               /\ cache_dir = None)
        /\ KvStart([KvNoArgs EXCEPT !.profile = profile, !.model = model,
                                    !.samples = samples, !.seq_len = seq_len,
                                    !.output = output, !.calib_data = calib_data,
                                    !.cache_dir = cache_dir, !.skip_deps = TRUE,
                                    !.no_volumes = TRUE],
                   "p" :> [kv_calibration |-> section],
                   environ, {DefaultRepo, DefaultRepo \o DefaultScript}, FALSE, {})

\* handle_kv_calibrate lines 916-957: the section is taken from the profile, or
\* built from the arguments.
KvResolve ==
    /\ kv_pc = "start"
    /\ LET r == ResolveSection(kv_args, kv_profiles, kv_environ)
       IN  IF IsNone(r)
           THEN /\ kv_pc' = "exit"
                /\ kv_exit' = ResolveExit(kv_args, kv_profiles)
                /\ UNCHANGED kv_loc
           ELSE /\ kv_pc' = "volumes"
                /\ UNCHANGED kv_exit
                /\ kv_loc' = [kv_loc EXCEPT !.section = Some(Val(r).section),
                                            !.model_id = Val(r).model_id,
                                            !.cache_dir = Some(Val(r).cache_dir)]
    /\ UNCHANGED <<kv_args, kv_profiles, kv_environ, kv_fs0, kv_fs, kv_podman,
                   kv_volumes, kv_log, kv_launched, kv_rc>>
    /\ UNCHANGED notKv

\* handle_kv_calibrate lines 959-961: the model's two volumes are ensured
\* unless --no-volumes is given.
KvVolumes ==
    /\ kv_pc = "volumes"
    /\ \E ok1, ok2 \in BOOLEAN :
          kv_volumes' =
              IF kv_args.no_volumes THEN kv_volumes
              ELSE ensure_podman_volume(
                       ensure_podman_volume(kv_volumes, "model", kv_podman, ok1),
                       "kv", kv_podman, ok2)
    /\ kv_pc' = "output"
    /\ UNCHANGED <<kv_args, kv_profiles, kv_environ, kv_fs0, kv_fs, kv_podman,
                   kv_loc, kv_log, kv_launched, kv_rc>>
    /\ UNCHANGED kv_exit
    /\ UNCHANGED notKv

\* handle_kv_calibrate lines 963-967: the output path is resolved and its
\* directory made; an existing output ends the command with 0 unless --force.
KvOutput ==
    /\ kv_pc = "output"
    /\ LET output == PathOf(GetOr(Val(kv_loc.section).output,
                                  Append(DEFAULT_KV_ROOT, KV_CACHE_FILENAME)))
       IN  /\ kv_loc' = [kv_loc EXCEPT !.output = Some(output)]
           /\ kv_log' = Append(kv_log, Ev("mkdir", TRUE, Parent(output), 0))
           /\ kv_fs' = kv_fs \cup {Parent(output)}
           /\ IF reuse_output(output \in kv_fs, kv_args.force)
              THEN kv_pc' = "done" /\ kv_rc' = Some(0)
              ELSE kv_pc' = "calib" /\ UNCHANGED kv_rc
    /\ UNCHANGED <<kv_args, kv_profiles, kv_environ, kv_fs0, kv_podman, kv_volumes,
                   kv_launched>>
    /\ UNCHANGED kv_exit
    /\ UNCHANGED notKv

\* handle_kv_calibrate lines 969-977 and _write_default_calib lines 313-320: a
\* missing calibration file is written with `samples` lines.
KvCalib ==
    /\ kv_pc = "calib"
    /\ LET calib_path == PathOf(GetOr(Val(kv_loc.section).calib_data,
                                      DEFAULT_KV_ROOT \o DefaultCalib))
           samples == GetOr(Val(kv_loc.section).samples, DefaultSamples)
       IN  /\ kv_loc' = [kv_loc EXCEPT !.calib_path = Some(calib_path)]
           /\ IF calib_path \in kv_fs
              THEN UNCHANGED <<kv_fs, kv_log>>
              ELSE /\ kv_fs' = kv_fs \cup {Parent(calib_path), calib_path}
                   /\ kv_log' = Append(kv_log, Ev("write_calib", TRUE, calib_path, samples))
    /\ kv_pc' = "download"
    /\ UNCHANGED <<kv_args, kv_profiles, kv_environ, kv_fs0, kv_podman, kv_volumes,
                   kv_launched, kv_rc>>
    /\ UNCHANGED kv_exit
    /\ UNCHANGED notKv

\* handle_kv_calibrate lines 979-980 and _download_model lines 323-348: the
\* cache directory is taken from the section again and the snapshot is
\* downloaded into it; SystemExit without the modelscope package or when the
\* download returns an empty path, and snapshot_download may raise.
KvDownload ==
    /\ kv_pc = "download"
    /\ LET cache_dir == PathOf(PathOf(GetOr(Val(kv_loc.section).cache_dir,
                                            DEFAULT_MODELSCOPE_CACHE)))
           model_dir == Join(cache_dir, safe_model_key(kv_loc.model_id))
       IN  /\ kv_environ' = SetDefault(SetKey(SetKey(kv_environ,
                                "MODELSCOPE_CACHE", cache_dir),
                                "MODELSCOPE_HOME", cache_dir),
                                "VLLM_USE_MODELSCOPE", <<"True">>)
           /\ \E outcome \in {"ok", "no_modelscope", "empty", "raise"} :
                 /\ kv_pc' = CASE outcome = "ok" -> "synthesize"
                               [] outcome = "raise" -> "error"
                               [] OTHER -> "exit"
                 /\ kv_exit' =
                       CASE outcome = "no_modelscope" ->
                               Some(<<"ModelScope is required. Install it with ",
                                      "'pip install modelscope'.">>)
                         [] outcome = "empty" ->
                               Some(<<"ModelScope download returned empty path for ",
                                      kv_loc.model_id>>)
                         [] OTHER -> None
                 /\ kv_log' = IF outcome = "no_modelscope" THEN kv_log
                              ELSE Append(kv_log, Ev("download", outcome = "ok", cache_dir, 0))
                 /\ kv_fs' = kv_fs \cup {cache_dir}
                                   \cup (IF outcome = "ok" THEN {model_dir} ELSE {})
                 /\ kv_loc' = [kv_loc EXCEPT
                                  !.cache_dir = Some(cache_dir),
                                  !.model_dir = IF outcome = "ok" THEN Some(model_dir)
                                                ELSE None]
    /\ UNCHANGED <<kv_args, kv_profiles, kv_fs0, kv_podman, kv_volumes, kv_launched, kv_rc>>
    /\ UNCHANGED notKv

\* handle_kv_calibrate lines 981-982: the missing config files are synthesized
\* in the snapshot and the snapshot metadata written in the cache directory.
KvSynthesize ==
    /\ kv_pc = "synthesize"
    /\ LET model_dir == Val(kv_loc.model_dir)
           cache_dir == Val(kv_loc.cache_dir)
       IN  /\ kv_fs' = kv_fs \cup {Append(model_dir, name) : name \in SynthesizedNames}
                             \cup {Append(cache_dir, ".modelscope-manage.json")}
           /\ kv_log' = kv_log \o <<Ev("synthesize", TRUE, model_dir, 0),
                                    Ev("metadata", TRUE, cache_dir, 0)>>
    /\ kv_pc' = "clone"
    /\ UNCHANGED <<kv_args, kv_profiles, kv_environ, kv_fs0, kv_podman, kv_volumes,
                   kv_loc, kv_launched, kv_rc>>
    /\ UNCHANGED kv_exit
    /\ UNCHANGED notKv

\* handle_kv_calibrate lines 984-986, _ensure_llm_compressor lines 472-486 and
\* _ensure_llm_compressor_runner lines 489-720: a missing checkout is cloned
\* (what the clone contains is up to the remote) and the runner file written.
KvClone ==
    /\ kv_pc = "clone"
    /\ LET section == Val(kv_loc.section)
           repo_path == Resolve(GetOr(section.llm_compressor_repo, DefaultRepo))
           script == Resolve(repo_path \o GetOr(section.quantization_script, DefaultScript))
           runner == Append(repo_path, RUNNER_FILENAME)
       IN  /\ kv_loc' = [kv_loc EXCEPT !.repo_path = Some(repo_path)]
           /\ IF repo_path \in kv_fs
              THEN /\ kv_fs' = kv_fs \cup {runner}
                   /\ kv_pc' = "deps"
                   /\ UNCHANGED kv_log
              ELSE \E ok, has_script \in BOOLEAN :
                      /\ kv_log' = Append(kv_log, Ev("clone", ok, repo_path, 0))
                      /\ kv_fs' = kv_fs \cup {Parent(repo_path)}
                                   \cup (IF ok THEN {repo_path} ELSE {})
                                   \cup (IF ok /\ has_script THEN {script} ELSE {})
                                   \cup (IF run_subprocess(ok) THEN {runner} ELSE {})
                      /\ kv_pc' = IF run_subprocess(ok) THEN "deps" ELSE "error"
    /\ UNCHANGED <<kv_args, kv_profiles, kv_environ, kv_fs0, kv_podman, kv_volumes,
                   kv_launched, kv_rc>>
    /\ UNCHANGED kv_exit
    /\ UNCHANGED notKv

\* handle_kv_calibrate lines 988-989: the dependencies are installed unless
\* --skip-deps is given.
KvDeps ==
    /\ kv_pc = "deps"
    /\ IF kv_args.skip_deps
       THEN kv_pc' = "script" /\ UNCHANGED kv_log
       ELSE \E un_ok, in_ok, ed_ok, ch_ok \in BOOLEAN :
               LET r == install_llm_compressor_deps(Val(kv_loc.repo_path),
                                                    un_ok, in_ok, ed_ok, ch_ok)
               IN  /\ kv_log' = kv_log \o r.log
                   /\ kv_pc' = IF r.raised THEN "error" ELSE "script"
    /\ UNCHANGED <<kv_args, kv_profiles, kv_environ, kv_fs0, kv_fs, kv_podman,
                   kv_volumes, kv_loc, kv_launched, kv_rc>>
    /\ UNCHANGED kv_exit
    /\ UNCHANGED notKv

\* The quantization script of the run: handle_kv_calibrate lines 992-996.
QuantScript ==
    Resolve(Val(kv_loc.repo_path)
            \o GetOr(Val(kv_loc.section).quantization_script, DefaultScript))

\* handle_kv_calibrate lines 991-998: SystemExit when the quantization script
\* is not in the checkout.
KvScript ==
    /\ kv_pc = "script"
    /\ kv_pc' = IF QuantScript \in kv_fs THEN "run" ELSE "exit"
    /\ kv_exit' = IF QuantScript \in kv_fs THEN None
                  ELSE Some(<<"Quantization script not found: ">> \o QuantScript)
    /\ UNCHANGED <<kv_args, kv_profiles, kv_environ, kv_fs0, kv_fs, kv_podman,
                   kv_volumes, kv_loc, kv_log, kv_launched, kv_rc>>
    /\ UNCHANGED notKv

\* handle_kv_calibrate lines 1009-1024: the environment of the quantization
\* subprocess.
QuantEnv ==
    LET section == Val(kv_loc.section)
        cache_dir == Val(kv_loc.cache_dir)
        e1 == SetKey(SetKey(kv_environ, "MODELSCOPE_CACHE", cache_dir),
                     "MODELSCOPE_HOME", cache_dir)
        e2 == apply_offline_defaults(e1, Some(cache_dir))
        e3 == SetDefault(e2, "PYTHONPATH", Append(Val(kv_loc.repo_path), "src"))
        e4 == SetDefault(e3, "MODEL_ID_MS", <<kv_loc.model_id>>)
        e5 == SetKey(e4, "MODEL_DIR", Val(kv_loc.model_dir))
        e6 == SetKey(e5, "CALIB_DATA_PATH", Val(kv_loc.calib_path))
        e7 == SetKey(e6, "KV_CALIB_SEQ_LEN", Str(GetOr(section.seq_len, DefaultSeqLen)))
    IN  SetKey(e7, "KV_CALIB_SAMPLES", Str(GetOr(section.samples, DefaultSamples)))

\* handle_kv_calibrate lines 1000-1007 and 1026-1040: the command line of the
\* quantization subprocess, a list of tokens.
QuantCmd ==
    <<<<"python3">>, Append(Val(kv_loc.repo_path), RUNNER_FILENAME), QuantScript,
      <<"--model">>, Val(kv_loc.model_dir),
      <<"--output">>, Val(kv_loc.output),
      <<"--kv-only">>, <<"true">>,
      <<"--seq-len">>, Str(GetOr(Val(kv_loc.section).seq_len, DefaultSeqLen)),
      <<"--calib-data">>, Val(kv_loc.calib_path)>>
    \o Val(kv_loc.section).quant_args

\* handle_kv_calibrate lines 1009-1044: the cache directories are made and the
\* quantization subprocess launched; it writes the output when it succeeds.
KvRun ==
    /\ kv_pc = "run"
    /\ kv_launched' = Some([cmd |-> QuantCmd, env |-> QuantEnv])
    /\ \E ok \in BOOLEAN :
          /\ kv_log' = Append(kv_log, Ev("quant", ok, Val(kv_loc.output), 0))
          /\ kv_fs' = kv_fs \cup {QuantEnv[key] : key \in {"HF_HOME", "TRANSFORMERS_CACHE",
                                                          "HF_DATASETS_CACHE"}}
                            \cup (IF ok THEN {Val(kv_loc.output)} ELSE {})
          /\ IF run_subprocess(ok)
             THEN kv_pc' = "done" /\ kv_rc' = Some(0)
             ELSE kv_pc' = "error" /\ UNCHANGED kv_rc
    /\ UNCHANGED <<kv_args, kv_profiles, kv_environ, kv_fs0, kv_podman, kv_volumes, kv_loc>>
    /\ UNCHANGED kv_exit
    /\ UNCHANGED notKv

KvNext ==
    \/ KvResolve
    \/ KvVolumes
    \/ KvOutput
    \/ KvCalib
    \/ KvDownload
    \/ KvSynthesize
    \/ KvClone
    \/ KvDeps
    \/ KvScript
    \/ KvRun


(***************************************************************************)
(*                  Properties of manage.py kv-calibrate                   *)
(***************************************************************************)
\* The operations performed so far.
KvOps == {kv_log[i].op : i \in 1..Len(kv_log)}

\* The output file was resolved and was there when the command started.
KvOutputExisted == ~IsNone(kv_loc.output) /\ Val(kv_loc.output) \in kv_fs0

\* C4: when the resolved output file already exists and --force is not given,
\* kv-calibrate returns 0 without downloading the model, writing a calibration
\* file, writing snapshot metadata, cloning llm-compressor, installing packages
\* or launching the quantization subprocess; with --force the existing output
\* does not stop the run.
C4_ReuseExistingOutput ==
    /\ (KvOutputExisted /\ ~kv_args.force) =>
          /\ kv_pc = "done"
          /\ kv_rc = Some(0)
          /\ KvOps \cap {"download", "write_calib", "synthesize", "metadata", "clone",
                         "uninstall", "install", "install_editable", "check_deps",
                         "quant"} = {}
          /\ IsNone(kv_launched)
          /\ kv_fs \ kv_fs0 \subseteq {Parent(Val(kv_loc.output))}
    /\ (KvOutputExisted /\ kv_args.force) =>
          /\ kv_pc \in {"calib", "download", "synthesize", "clone", "deps", "script",
                        "run", "done", "exit", "error"}
          /\ kv_pc = "done" => ("quant" \in KvOps /\ ~IsNone(kv_launched))

\* C4 witness: a run without --force that found its output file and returned.
C4_Witness ==
    /\ KvOutputExisted
    /\ ~kv_args.force
    /\ kv_pc = "done"
    /\ kv_rc = Some(0)
    /\ kv_log = <<Ev("mkdir", TRUE, Parent(Val(kv_loc.output)), 0)>>

\* The steps of the calibration proper, in the order of the log.
KvSteps ==
    LET IsStep(e) == e.op \in {"download", "synthesize", "clone", "install",
                               "install_editable", "check_deps", "quant"}
        steps == SelectSeq(kv_log, IsStep)
    IN  [i \in 1..Len(steps) |-> steps[i].op]

\* C6: in a run that launches the quantization subprocess the steps happened in
\* the order download, synthesis, clone (if the checkout was absent),
\* dependency installation (unless --skip-deps), quantization; every step
\* before the quantization completed without error, and a failed download,
\* clone or install ends the run without the quantization being invoked.
C6_StepOrder ==
    /\ (~IsNone(kv_launched) \/ "quant" \in KvOps) =>
          /\ ~IsNone(kv_launched)
          /\ KvSteps = <<"download", "synthesize">>
                       \o (IF DefaultRepo \in kv_fs0 THEN <<>> ELSE <<"clone">>)
                       \o (IF kv_args.skip_deps THEN <<>>
                           ELSE <<"install", "install_editable", "check_deps">>)
                       \o <<"quant">>
          /\ \A i \in 1..Len(kv_log) :
                (kv_log[i].op \notin {"quant", "uninstall"}) => kv_log[i].ok
    /\ \A i \in 1..Len(kv_log) :
          (/\ kv_log[i].op \in {"download", "clone", "install", "install_editable",
                                "check_deps"}
           /\ ~kv_log[i].ok)
          => /\ i = Len(kv_log)
             /\ kv_pc \in {"exit", "error"}
             /\ IsNone(kv_launched)

\* C6 witness: a finished run that had to clone the checkout and install the
\* dependencies before it launched the quantization.
C6_Witness ==
    /\ kv_pc = "done"
    /\ ~IsNone(kv_launched)
    /\ DefaultRepo \notin kv_fs0
    /\ ~kv_args.skip_deps
    /\ KvSteps = <<"download", "synthesize", "clone", "install", "install_editable",
                   "check_deps", "quant">>

\* The token that follows flag on a command line.
ArgAfter(cmd, flag) == cmd[(CHOOSE i \in 1..Len(cmd) : cmd[i] = flag) + 1]

\* The kv_calibration section of the profile named, if any.
KvProfileSection ==
    IF ~IsNone(kv_args.profile) /\ Val(kv_args.profile) \in DOMAIN kv_profiles
       /\ ~IsNone(kv_profiles[Val(kv_args.profile)].kv_calibration)
    THEN Val(kv_profiles[Val(kv_args.profile)].kv_calibration)
    ELSE BareSection("")

\* The command-line value of an option if given, else the profile's.
KvChoice(arg, prof) == IF ~IsNone(arg) THEN arg ELSE prof

\* C9: a value given on the command line for --samples, --seq-len, --output,
\* --calib-data or --cache-dir is the value the run uses; the profile's
\* kv_calibration value is used only when the option is absent, and the
\* built-in default (512 samples, sequence length 4096) only when both are
\* absent; with --profile as with --model.
C9_CommandLineWins ==
    ~IsNone(kv_launched) =>
        LET cmd == Val(kv_launched).cmd
            env == Val(kv_launched).env
            sec == KvProfileSection
            samples == GetOr(KvChoice(kv_args.samples, sec.samples), 512)
            seq_len == GetOr(KvChoice(kv_args.seq_len, sec.seq_len), 4096)
            output == KvChoice(kv_args.output, sec.output)
            calib_data == KvChoice(kv_args.calib_data, sec.calib_data)
            cache_dir == KvChoice(kv_args.cache_dir, sec.cache_dir)
        IN  /\ env["KV_CALIB_SAMPLES"] = Str(samples)
            /\ ArgAfter(cmd, <<"--seq-len">>) = Str(seq_len)
            /\ env["KV_CALIB_SEQ_LEN"] = Str(seq_len)
            /\ ~IsNone(output) => ArgAfter(cmd, <<"--output">>) = PathOf(Val(output))
            /\ ~IsNone(calib_data) =>
                  ArgAfter(cmd, <<"--calib-data">>) = PathOf(Val(calib_data))
            /\ ~IsNone(cache_dir) => env["MODELSCOPE_CACHE"] = PathOf(Val(cache_dir))

(***************************************************************************)
(*      manage.py : install, info, delete (the model cache, volumes)       *)
(***************************************************************************)
\* What the user may type at the confirmation prompt, as character sequences.
Answers == {<<"y">>, <<"Y">>, <<" ", "Y", "e", "s", " ">>, <<"y", "e", "s">>,
            <<"n">>, <<>>, <<"y", "e", "p">>}

\* str.lower on one character.
LowerChar(c) == CASE c = "Y" -> "y" [] c = "E" -> "e" [] c = "S" -> "s"
                  [] c = "N" -> "n" [] OTHER -> c

\* str.lower
Lower(str) == [i \in 1..Len(str) |-> LowerChar(str[i])]

RECURSIVE LStrip(_)
LStrip(str) == IF str # <<>> /\ Head(str) = " " THEN LStrip(Tail(str)) ELSE str

RECURSIVE RStrip(_)
RStrip(str) == IF str # <<>> /\ str[Len(str)] = " "
               THEN RStrip(SubSeq(str, 1, Len(str) - 1)) ELSE str

\* str.strip
Strip(str) == RStrip(LStrip(str))

\* handle_model_delete lines 895-896: the answer counts as a confirmation.
Confirmed(answer) == Lower(Strip(answer)) \in {<<"y">>, <<"y", "e", "s">>}

\* _clean_cache_root line 144: cache_root == cache_root.anchor compares a Path
\* with a str (Path.anchor), and pathlib answers False for every such pair,
\* whether or not the path is the filesystem root.
PathEqualsAnchor(is_root) == FALSE

\* _clean_cache_root lines 141-146: what happens to the directory: it is
\* "absent" already, the removal is "refused" (SystemExit), or it is "removed".
clean_cache_root(exists, is_root) ==
    IF ~exists THEN "absent"
    ELSE IF PathEqualsAnchor(is_root) THEN "refused"
    ELSE "removed"

\* _remove_podman_volume lines 177-186: the volumes left when `podman volume rm`
\* answers rm_ok. Without the podman CLI, or without the volume, inspection
\* fails and nothing is removed.
remove_podman_volume(volumes, name, podman, rm_ok) ==
    IF ~podman \/ name \notin volumes THEN volumes
    ELSE IF rm_ok THEN volumes \ {name}
    ELSE volumes

\* The model the cache commands are run for.
McModel == "org/m"

\* The --cache-dir choices drawn: the default, a directory of the user's, and
\* the filesystem root.
McCacheDirs == {None, Some(<<"~", "mc">>), Some(<<"/">>)}

\* handle_install_model line 824, handle_model_info line 852,
\* handle_model_delete line 889: the cache root of the command.
cache_root_of(cache_dir) ==
    PathOf(OrPath(cache_dir, model_cache_root(normalize_model_id(McModel))))

\* The path is the filesystem root.
IsAnchor(path) == path = <<"/">>

\* The directory the download of the model lands in, below the cache root.
SnapshotDir(cache_root) == Join(cache_root, safe_model_key(McModel))

\* A directory left below the cache root by an earlier download.
OldDir(cache_root) == Append(cache_root, "old")

\* _locate_snapshot lines 777-784: the directories drawn in the order of the
\* sort key (number of parts, then the path as a string): "old" < "org_m".
RglobOrder(cache_root) == <<OldDir(cache_root), SnapshotDir(cache_root)>>

\* A mutant of locate_snapshot: the metadata file is not consulted.
locate_snapshot_IgnoreMetadata(cache_root, root_exists, meta, recorded, snapshots) ==
    LET found == {i \in 1..2 : RglobOrder(cache_root)[i] \in snapshots}
    IN  IF ~root_exists \/ found = {} THEN None
        ELSE Some(RglobOrder(cache_root)[CHOOSE i \in found : \A j \in found : i <= j])

\* _locate_snapshot lines 768-787: the recorded snapshot_path if it exists,
\* else the first directory below the cache root that holds a config.json.
locate_snapshot(cache_root, root_exists, meta, recorded, snapshots) ==
    LET found == {i \in 1..2 : RglobOrder(cache_root)[i] \in snapshots}
    IN  IF meta /\ ~IsNone(recorded) /\ PathOf(Val(recorded)) \in snapshots
        THEN Some(PathOf(Val(recorded)))
        ELSE IF ~root_exists \/ found = {} THEN None
        ELSE Some(RglobOrder(cache_root)[CHOOSE i \in found : \A j \in found : i <= j])

\* An entry of mc_log: the operation, what it worked on, whether it succeeded.
Op(op, name, ok) == [op |-> op, name |-> name, ok |-> ok]

\* A mutant of ensure_podman_volume_ops: the volume is created even when the
\* inspection finds it.
ensure_podman_volume_ops_AlwaysCreate(volumes, name, podman, create_ok) ==
    <<Op("inspect", name, podman /\ name \in volumes),
      Op("create", name, podman /\ create_ok)>>

\* _ensure_podman_volume lines 165-174 and _run_podman lines 154-162: the
\* _run_podman calls made; the volume is created only if the inspection fails.
ensure_podman_volume_ops(volumes, name, podman, create_ok) ==
    IF podman /\ name \in volumes THEN <<Op("inspect", name, TRUE)>>
    ELSE <<Op("inspect", name, FALSE), Op("create", name, podman /\ create_ok)>>

\* _remove_podman_volume lines 177-186: the _run_podman calls made.
remove_podman_volume_ops(volumes, name, podman, rm_ok) ==
    IF ~podman \/ name \notin volumes THEN <<Op("inspect", name, FALSE)>>
    ELSE <<Op("inspect", name, TRUE), Op("rm", name, rm_ok)>>

McInit ==
    /\ mc_cache_dir \in McCacheDirs
    /\ mc_cache_root \in BOOLEAN
    /\ IsAnchor(cache_root_of(mc_cache_dir)) => mc_cache_root
    /\ mc_snapshots \in SUBSET {OldDir(cache_root_of(mc_cache_dir)),
                                SnapshotDir(cache_root_of(mc_cache_dir))}
    /\ (mc_snapshots # {}) => mc_cache_root
    /\ mc_meta \in BOOLEAN
    /\ mc_meta => mc_cache_root
    /\ mc_recorded \in {None, Some(OldDir(cache_root_of(mc_cache_dir))),
                        Some(SnapshotDir(cache_root_of(mc_cache_dir)))}
    /\ (~mc_meta) => mc_recorded = None
    /\ mc_kv_root \in BOOLEAN
    /\ mc_volumes \in SUBSET {"model", "kv"}
    /\ mc_podman \in BOOLEAN
    /\ (~mc_podman) => mc_volumes = {}
    /\ mc_last = NoCommand
    /\ mc_log = <<>>

\* handle_install_model lines 822-847, the whole command: the volumes are
\* ensured, the snapshot downloaded (_download_model makes the cache root
\* first), its config files synthesized, the metadata written and the KV
\* directory made. A failed download ends the command with status 1.
McInstall ==
    \E no_volume, no_kv_volume \in BOOLEAN :
    \E ok1 \in IF no_volume \/ ~mc_podman THEN {FALSE} ELSE BOOLEAN :
    \E ok2 \in IF no_kv_volume \/ ~mc_podman THEN {FALSE} ELSE BOOLEAN :
    \E outcome \in {"ok", "no_modelscope", "empty", "raise"} :
      LET cache_root == cache_root_of(mc_cache_dir)
          model_dir == SnapshotDir(cache_root)
          vols1 == IF no_volume THEN mc_volumes
                   ELSE ensure_podman_volume(mc_volumes, "model", mc_podman, ok1)
          vols2 == IF no_kv_volume THEN vols1
                   ELSE ensure_podman_volume(vols1, "kv", mc_podman, ok2)
          done == outcome = "ok"
          log == (IF no_volume THEN <<>>
                  ELSE ensure_podman_volume_ops(mc_volumes, "model", mc_podman, ok1))
                 \o (IF no_kv_volume THEN <<>>
                     ELSE ensure_podman_volume_ops(vols1, "kv", mc_podman, ok2))
                 \o <<Op("mkdir", "cache", TRUE)>>
                 \o (IF outcome = "no_modelscope" THEN <<>>
                     ELSE <<Op("download", "cache", done)>>)
                 \o (IF done THEN <<Op("synthesize", "cache", TRUE),
                                    Op("metadata", "cache", TRUE)>>
                     ELSE <<>>)
                 \o (IF done /\ ~no_kv_volume THEN <<Op("mkdir", "kv", TRUE)>> ELSE <<>>)
      IN  /\ mc_volumes' = vols2
          /\ mc_cache_root' = TRUE
          /\ mc_snapshots' = IF done THEN mc_snapshots \cup {model_dir} ELSE mc_snapshots
          /\ mc_meta' = (done \/ mc_meta)
          /\ mc_recorded' = IF done THEN Some(model_dir) ELSE mc_recorded
          /\ mc_kv_root' = (mc_kv_root \/ (done /\ ~no_kv_volume))
          /\ mc_last' = [NoCommand EXCEPT !.cmd = "install", !.no_volume = no_volume,
                                          !.no_kv_volume = no_kv_volume,
                                          !.snapshot = IF done THEN Some(model_dir) ELSE None,
                                          !.rc = IF done THEN 0 ELSE 1]
          /\ mc_log' = log
          /\ UNCHANGED <<mc_cache_dir, mc_podman>>
          /\ UNCHANGED notMc

\* handle_model_info lines 850-858, the whole command: 1 when no snapshot is
\* located, else the snapshot is reported and the result is 0.
McInfo ==
    LET snapshot_dir == locate_snapshot(cache_root_of(mc_cache_dir), mc_cache_root,
                                        mc_meta, mc_recorded, mc_snapshots)
    IN  /\ mc_last' = [NoCommand EXCEPT !.cmd = "info", !.snapshot = snapshot_dir,
                                        !.rc = IF IsNone(snapshot_dir) THEN 1 ELSE 0]
        /\ UNCHANGED <<mc_cache_dir, mc_cache_root, mc_snapshots, mc_meta, mc_recorded,
                       mc_kv_root, mc_volumes, mc_podman, mc_log>>
        /\ UNCHANGED notMc

\* handle_model_delete lines 887-914, the whole command. The user's answer is
\* read only when the cache root exists and --force is not given. rmtree
\* empties the filesystem root but cannot remove the root itself.
McDelete ==
    \E force, remove_volume, remove_kv \in BOOLEAN :
    \E rm_ok \in IF remove_volume \/ remove_kv THEN BOOLEAN ELSE {TRUE} :
    \E answer \in IF mc_cache_root /\ ~force THEN Answers ELSE {<<>>} :
      LET cache_root == cache_root_of(mc_cache_dir)
          prompted == mc_cache_root /\ ~force
          cancelled == prompted /\ ~Confirmed(answer)
          cleaned == clean_cache_root(mc_cache_root, IsAnchor(cache_root))
          refused == cleaned = "refused"
          wiped == cleaned = "removed" /\ IsAnchor(cache_root)
          root_after == mc_cache_root /\ IsAnchor(cache_root)
          \* the metadata file lives in the cache root and goes with it; lines
          \* 902-904 unlink it if it is still there
          meta_after == FALSE
          vols1 == IF remove_volume
                   THEN remove_podman_volume(mc_volumes, "model", mc_podman, rm_ok)
                   ELSE mc_volumes
          kv1 == mc_kv_root /\ ~wiped
          \* the KV directory of a model is never the filesystem root
          kv_after == IF remove_kv /\ kv1
                      THEN clean_cache_root(kv1, FALSE) = "refused"
                      ELSE kv1
          vols2 == IF remove_kv
                   THEN remove_podman_volume(vols1, "kv", mc_podman, rm_ok)
                   ELSE vols1
          log == (IF cleaned = "removed" THEN <<Op("rmtree", "cache", TRUE)>> ELSE <<>>)
                 \o (IF remove_volume
                     THEN remove_podman_volume_ops(mc_volumes, "model", mc_podman, rm_ok)
                     ELSE <<>>)
                 \o (IF remove_kv /\ kv1 THEN <<Op("rmtree", "kv", TRUE)>> ELSE <<>>)
                 \o (IF remove_kv
                     THEN remove_podman_volume_ops(vols1, "kv", mc_podman, rm_ok)
                     ELSE <<>>)
      IN  /\ mc_last' = [NoCommand EXCEPT !.cmd = "delete", !.force = force,
                                          !.remove_volume = remove_volume,
                                          !.remove_kv = remove_kv,
                                          !.prompted = prompted,
                                          !.answer = IF prompted THEN answer ELSE <<>>,
                                          !.rc = IF cancelled \/ refused THEN 1 ELSE 0]
          /\ IF cancelled \/ refused
             THEN /\ UNCHANGED <<mc_cache_root, mc_snapshots, mc_meta, mc_recorded,
                                 mc_kv_root, mc_volumes>>
                  /\ mc_log' = <<>>
             ELSE /\ mc_cache_root' = root_after
                  /\ mc_snapshots' = {}
                  /\ mc_meta' = meta_after
                  /\ mc_recorded' = None
                  /\ mc_kv_root' = kv_after
                  /\ mc_volumes' = vols2
                  /\ mc_log' = log
          /\ UNCHANGED <<mc_cache_dir, mc_podman>>
          /\ UNCHANGED notMc

McNext == McDelete

\* install, info and delete in any order.
McCacheNext == McInstall \/ McInfo \/ McDelete

\* C5: without --force, delete removes nothing (cache root, metadata file, KV
\* data, Podman volumes) unless the user answered 'y' or 'yes' at the
\* confirmation prompt, for every combination of --remove-volume and
\* --remove-kv and whether or not the cache root exists.
C5_NoRemovalWithoutConfirmation ==
    [][(/\ mc_last'.cmd = "delete"
        /\ ~mc_last'.force
        /\ ~(mc_last'.prompted /\ Confirmed(mc_last'.answer)))
       => /\ mc_cache_root' = mc_cache_root
          /\ mc_meta' = mc_meta
          /\ mc_kv_root' = mc_kv_root
          /\ mc_volumes' = mc_volumes]_vars


\* C20: _clean_cache_root raises SystemExit and removes nothing when the
\* directory it is asked to remove is the filesystem root: a delete of a cache
\* root that is the filesystem root runs no rmtree on it and ends in failure.
C20_RefusesFilesystemRoot ==
    (/\ mc_last.cmd = "delete"
     /\ IsAnchor(cache_root_of(mc_cache_dir))
     /\ mc_cache_root
     /\ (mc_last.force \/ Confirmed(mc_last.answer))) =>
        /\ mc_last.rc = 1
        /\ \A i \in 1..Len(mc_log) : mc_log[i].op # "rmtree"

McOpsAt(op, name) == {i \in 1..Len(mc_log) : mc_log[i].op = op /\ mc_log[i].name = name}

\* C13: install with --no-volume never inspects or creates the model volume;
\* with --no-kv-volume it never inspects or creates the KV volume and never
\* creates the KV data directory; without these flags each volume is inspected,
\* and created only if the inspection fails, before the download starts.
C13_InstallVolumes ==
    /\ [](mc_last.cmd = "install" =>
            /\ mc_last.no_volume =>
                  McOpsAt("inspect", "model") \cup McOpsAt("create", "model") = {}
            /\ mc_last.no_kv_volume =>
                  McOpsAt("inspect", "kv") \cup McOpsAt("create", "kv")
                     \cup McOpsAt("mkdir", "kv") = {}
            /\ \A name \in {"model", "kv"} :
                  (IF name = "model" THEN ~mc_last.no_volume ELSE ~mc_last.no_kv_volume) =>
                     /\ Cardinality(McOpsAt("inspect", name)) = 1
                     /\ Cardinality(McOpsAt("create", name)) <= 1
                     /\ \A i \in McOpsAt("inspect", name) :
                           /\ mc_log[i].ok <=> McOpsAt("create", name) = {}
                           /\ \A j \in McOpsAt("create", name) : i < j
                     /\ \A i \in McOpsAt("inspect", name) \cup McOpsAt("create", name) :
                           \A j \in McOpsAt("download", "cache") \cup McOpsAt("mkdir", "cache") :
                              i < j)
    /\ [][(mc_last'.cmd = "install" /\ mc_last'.no_volume) =>
             (("model" \in mc_volumes') <=> ("model" \in mc_volumes))]_vars
    /\ [][(mc_last'.cmd = "install" /\ mc_last'.no_kv_volume) =>
             /\ ("kv" \in mc_volumes') <=> ("kv" \in mc_volumes)
             /\ mc_kv_root' = mc_kv_root]_vars

\* C13 witness: a successful install with --no-kv-volume that created the
\* missing model volume before it downloaded.
C13_Witness ==
    /\ mc_last.cmd = "install"
    /\ mc_last.rc = 0
    /\ mc_last.no_kv_volume
    /\ ~mc_last.no_volume
    /\ ~mc_kv_root
    /\ mc_volumes = {"model"}
    /\ mc_log = <<Op("inspect", "model", FALSE), Op("create", "model", TRUE),
                  Op("mkdir", "cache", TRUE), Op("download", "cache", TRUE),
                  Op("synthesize", "cache", TRUE), Op("metadata", "cache", TRUE)>>

(***************************************************************************)
(*              manage.py : _synthesize_transformer_files                  *)
(***************************************************************************)
\* The content of a file is a tag for what it holds:
\*   "typed"      a JSON object with model_type or architectures
\*   "object"     another JSON object, nothing in it for the code to rewrite
\*   "empty"      the JSON object {}
\*   "sentinel"   a JSON object whose _name_or_path names a remote repository
\*   "sanitized"  that object with the name replaced by "."
\*   "with_file"  a JSON object with a tokenizer_file entry
\*   "file_added" a JSON object that was given its tokenizer_file entry
\*   "max_length" the JSON object {"model_max_length": 32768}
\*   "array"      JSON that is not an object (a list)
\*   "mapping"    the token -> index mapping made from a list
\*   "invalid"    not JSON
\*   "data"       a file that is not read as JSON

\* The six files the function makes sure exist, lines 354 and 375-392.
ConfigFiles ==
    {"config.json", "tokenizer_config.json", "special_tokens_map.json",
     "generation_config.json", "preprocessor_config.json", "added_tokens.json"}

\* The contents drawn for each file of a model directory before the call.
SyContents ==
    [n \in ConfigFiles \cup {"configuration.json", "tokenizer.json", "tokenizer.model"} |->
        CASE n = "config.json" -> {"object", "sentinel", "invalid", "array"}
          [] n = "tokenizer_config.json" -> {"object", "with_file", "invalid", "array"}
          [] n = "added_tokens.json" -> {"array", "object", "invalid"}
          [] n = "configuration.json" -> {"typed", "object"}
          [] n \in {"tokenizer.json", "tokenizer.model"} -> {"data"}
          [] OTHER -> {"object"}]

\* f with key n set to v.
Put(f, n, v) == (n :> v) @@ f

\* The directories that hold any subset of the files named, each with any of
\* its contents.
RECURSIVE DirsOver(_)
DirsOver(names) ==
    IF names = {} THEN {[n \in {} |-> ""]}
    ELSE LET n == CHOOSE x \in names : TRUE
             rest == DirsOver(names \ {n})
         IN  rest \cup {Put(d, n, c) : d \in rest, c \in SyContents[n]}

\* The model directories drawn.
SyDirs == DirsOver(DOMAIN SyContents)

\* _synthesize_transformer_files lines 354-372: config.json, when absent, is
\* written from the first *.json that names a model type, else as {}.
synthesize_config(files) ==
    IF "config.json" \in DOMAIN files THEN files
    ELSE IF "configuration.json" \in DOMAIN files /\ files["configuration.json"] = "typed"
    THEN Put(files, "config.json", "typed")
    ELSE Put(files, "config.json", "empty")

\* _synthesize_transformer_files lines 374-385: tokenizer_config.json, when
\* absent, is written from what tokenizer files there are.
synthesize_tokenizer_config(files) ==
    IF "tokenizer_config.json" \in DOMAIN files THEN files
    ELSE IF "tokenizer.json" \in DOMAIN files
    THEN Put(files, "tokenizer_config.json", "with_file")
    ELSE IF "tokenizer.model" \in DOMAIN files
    THEN Put(files, "tokenizer_config.json", "max_length")
    ELSE Put(files, "tokenizer_config.json", "empty")

\* A mutant of synthesize_defaults: the defaults are written over the files
\* that exist.
synthesize_defaults_Overwrite(files) ==
    [n \in {"special_tokens_map.json", "generation_config.json",
            "preprocessor_config.json", "added_tokens.json"} |->
        IF n = "added_tokens.json" THEN "array" ELSE "empty"] @@ files

\* _synthesize_transformer_files lines 387-401: the other four files, when
\* absent, are written as {} ([] for added_tokens.json).
synthesize_defaults(files) ==
    files @@ [n \in {"special_tokens_map.json", "generation_config.json",
                     "preprocessor_config.json", "added_tokens.json"} |->
                 IF n = "added_tokens.json" THEN "array" ELSE "empty"]

\* A mutant of normalize_added_tokens: a list is left as it is.
normalize_added_tokens_KeepList(files) == files

\* _normalize_tokenizer_artifacts lines 408-421: an added_tokens.json that
\* holds a list is rewritten as a mapping.
normalize_added_tokens(files) ==
    IF "added_tokens.json" \in DOMAIN files /\ files["added_tokens.json"] = "array"
    THEN Put(files, "added_tokens.json", "mapping")
    ELSE files

\* _normalize_tokenizer_artifacts lines 423-437: tokenizer_config.json is given
\* its tokenizer_file entry when tokenizer.json exists; a file that does not
\* parse counts as {}, and assigning into a list raises TypeError.
normalize_tokenizer_config(files) ==
    LET cfg_data == IF "tokenizer_config.json" \notin DOMAIN files THEN "empty"
                    ELSE IF files["tokenizer_config.json"] = "invalid" THEN "empty"
                    ELSE files["tokenizer_config.json"]
    IN  IF cfg_data \in {"with_file", "file_added"} \/ "tokenizer.json" \notin DOMAIN files
        THEN [files |-> files, raised |-> FALSE]
        ELSE IF cfg_data = "array" THEN [files |-> files, raised |-> TRUE]
        ELSE [files |-> Put(files, "tokenizer_config.json", "file_added"),
              raised |-> FALSE]

\* _sanitize_config_for_offline lines 440-469: remote names in config.json are
\* replaced by "."; a file that does not parse is left alone, and JSON that is
\* not an object raises AttributeError at data.get.
sanitize_config_for_offline(files) ==
    IF "config.json" \notin DOMAIN files \/ files["config.json"] = "invalid"
    THEN [files |-> files, raised |-> FALSE]
    ELSE IF files["config.json"] = "array" THEN [files |-> files, raised |-> TRUE]
    ELSE IF files["config.json"] = "sentinel"
    THEN [files |-> Put(files, "config.json", "sanitized"), raised |-> FALSE]
    ELSE [files |-> files, raised |-> FALSE]

SyInit ==
    /\ sy_pc = "start"
    /\ sy_before \in SyDirs
    /\ sy_files = sy_before

\* _synthesize_transformer_files lines 354-401: the missing files are written.
SyCreate ==
    /\ sy_pc = "start"
    /\ sy_files' = synthesize_defaults(synthesize_tokenizer_config(
                       synthesize_config(sy_files)))
    /\ sy_pc' = "created"
    /\ UNCHANGED sy_before
    /\ UNCHANGED notSy

\* _synthesize_transformer_files line 403: _normalize_tokenizer_artifacts.
SyNormalize ==
    /\ sy_pc = "created"
    /\ LET r == normalize_tokenizer_config(normalize_added_tokens(sy_files))
       IN  /\ sy_files' = r.files
           /\ sy_pc' = IF r.raised THEN "raised" ELSE "normalized"
    /\ UNCHANGED sy_before
    /\ UNCHANGED notSy

\* _synthesize_transformer_files line 404: _sanitize_config_for_offline, after
\* which the function returns.
SySanitize ==
    /\ sy_pc = "normalized"
    /\ LET r == sanitize_config_for_offline(sy_files)
       IN  /\ sy_files' = r.files
           /\ sy_pc' = IF r.raised THEN "raised" ELSE "returned"
    /\ UNCHANGED sy_before
    /\ UNCHANGED notSy

SyNext == SyCreate \/ SyNormalize \/ SySanitize

\* C14: after _synthesize_transformer_files returns, the six config files
\* exist in the model directory, whatever subset of them existed before, and
\* added_tokens.json does not hold a JSON list.
C14_SixFilesExist ==
    sy_pc = "returned" =>
        /\ ConfigFiles \subseteq DOMAIN sy_files
        /\ sy_files["added_tokens.json"] # "array"

\* C14 witness: the function returned on a directory that had none of the six
\* files.
C14_Witness ==
    /\ sy_pc = "returned"
    /\ DOMAIN sy_before \cap ConfigFiles = {}
    /\ "tokenizer.json" \in DOMAIN sy_before
    /\ sy_files["added_tokens.json"] = "mapping"

\* The files whose content the call changed among those it found.
SyRewritten == {n \in DOMAIN sy_before : sy_files[n] # sy_before[n]}

FeEnvs ==
    [torch : {"ok", "raises"},
     cuda : {"yes", "no", "raises"},
     device : {"ok", "raises"},
     vllm : {"ok", "no_version", "raises"},
     classes : {"ok", "raises"}]

\* main lines 19-32 without the try: how the body of the GPU check ends.
gpu_body(env) ==
    IF env.torch = "raises" \/ env.cuda = "raises" THEN "raises"
    ELSE IF env.cuda = "no" THEN "false"
    ELSE IF env.device = "raises" THEN "raises"
    ELSE "true"

\* main lines 36-43 without the try: how the body of the import check ends.
vllm_body(env) == IF env.vllm = "ok" THEN "true" ELSE "raises"

\* main lines 48-55 without the try: how the body of the classes check ends.
classes_body(env) == IF env.classes = "ok" THEN "true" ELSE "raises"

\* A mutant of Guarded: the body runs outside any try.
Guarded_NoTry(body) == [ok |-> body = "true", escaped |-> body = "raises"]

\* try: body / except Exception: flag = False (lines 19-32, 36-43, 48-55).
Guarded(body) == [ok |-> body = "true", escaped |-> FALSE]

\* A mutant of FinalCode: the classes flag is not looked at.
FinalCode_IgnoreClasses(gpu_ok, vllm_ok, classes_ok) ==
    IF gpu_ok /\ vllm_ok THEN 0 ELSE 1

\* main lines 66-77: all_ok and the value returned.
FinalCode(gpu_ok, vllm_ok, classes_ok) ==
    IF gpu_ok /\ vllm_ok /\ classes_ok THEN 0 ELSE 1

FeInit ==
    /\ fe_pc = "gpu"
    /\ fe_env \in FeEnvs
    /\ fe_ok = [n \in {} |-> FALSE]
    /\ fe_attempted = FALSE
    /\ fe_rc = None

\* main lines 17-32: the GPU and PyTorch check.
FeTestGpu ==
    /\ fe_pc = "gpu"
    /\ LET r == Guarded(gpu_body(fe_env))
       IN  /\ fe_ok' = ("gpu" :> r.ok) @@ fe_ok
           /\ fe_pc' = IF r.escaped THEN "escaped" ELSE "vllm"
    /\ UNCHANGED <<fe_env, fe_attempted, fe_rc>>
    /\ UNCHANGED notFe

\* main lines 34-43: the vLLM import check.
FeTestVllm ==
    /\ fe_pc = "vllm"
    /\ LET r == Guarded(vllm_body(fe_env))
       IN  /\ fe_ok' = ("vllm" :> r.ok) @@ fe_ok
           /\ fe_pc' = IF r.escaped THEN "escaped" ELSE "classes"
    /\ UNCHANGED <<fe_env, fe_attempted, fe_rc>>
    /\ UNCHANGED notFe

\* main lines 45-57: the core-classes check, run only when vllm_ok.
FeTestClasses ==
    /\ fe_pc = "classes"
    /\ IF fe_ok["vllm"]
       THEN LET r == Guarded(classes_body(fe_env))
            IN  /\ fe_ok' = ("classes" :> r.ok) @@ fe_ok
                /\ fe_pc' = IF r.escaped THEN "escaped" ELSE "results"
                /\ fe_attempted' = TRUE
       ELSE /\ fe_ok' = ("classes" :> FALSE) @@ fe_ok
            /\ fe_pc' = "results"
            /\ fe_attempted' = FALSE
    /\ UNCHANGED <<fe_env, fe_rc>>
    /\ UNCHANGED notFe

\* main lines 59-77: the results are printed and the code returned.
FeResults ==
    /\ fe_pc = "results"
    /\ fe_rc' = Some(FinalCode(fe_ok["gpu"], fe_ok["vllm"], fe_ok["classes"]))
    /\ fe_pc' = "done"
    /\ UNCHANGED <<fe_env, fe_ok, fe_attempted>>
    /\ UNCHANGED notFe

FeNext == FeTestGpu \/ FeTestVllm \/ FeTestClasses \/ FeResults

\* Whether each check passes on the machine, read off the machine alone.
FeGpuPasses == fe_env.torch = "ok" /\ fe_env.cuda = "yes" /\ fe_env.device = "ok"
FeImportPasses == fe_env.vllm = "ok"
FeClassesPass == fe_env.classes = "ok"

\* C16: main returns 0 exactly when the GPU/PyTorch check, the vLLM import
\* check and the core-classes check all passed, and 1 otherwise; the
\* core-classes check is attempted only when the vLLM import succeeded and
\* counts as failed when it was skipped; no exception a check raises leaves
\* main.
C16_ReturnCode ==
    /\ fe_pc # "escaped"
    /\ fe_attempted => fe_env.vllm = "ok" /\ fe_ok["vllm"]
    /\ fe_pc \in {"results", "done"} =>
          /\ fe_attempted <=> fe_ok["vllm"]
          /\ ~fe_attempted => ~fe_ok["classes"]
          /\ fe_ok["gpu"] <=> FeGpuPasses
          /\ fe_ok["vllm"] <=> FeImportPasses
          /\ fe_ok["classes"] <=> (FeImportPasses /\ FeClassesPass)
    /\ fe_pc = "done" =>
          /\ fe_rc \in {Some(0), Some(1)}
          /\ fe_rc = Some(0) <=> (FeGpuPasses /\ FeImportPasses /\ FeClassesPass)
    /\ fe_pc # "done" => fe_rc = None

\* C16 witness: main returned 1 on a machine where the GPU check passed and
\* the vLLM import raised, with the core-classes check skipped.
C16_Witness ==
    /\ fe_pc = "done"
    /\ fe_rc = Some(1)
    /\ FeGpuPasses
    /\ fe_env.vllm = "raises"
    /\ fe_env.classes = "ok"
    /\ ~fe_attempted
    /\ ~fe_ok["classes"]

(***************************************************************************)
(*                         validate-rtx5090.py                             *)
(***************************************************************************)
\* The machine: whether TORCH_CUDA_ARCH_LIST contains '12.0', how the two
\* commands end ("ok" exit 0, "fail" another exit code, "timeout"), and how
\* the imports of torch and vllm end ("ok", "import_error", "error").
VrEnvs ==
    [arch : BOOLEAN,
     nvcc : {"ok", "fail", "timeout"},
     smi : {"ok", "fail", "timeout"},
     torch : {"ok", "import_error", "error"},
     vllm : {"ok", "import_error", "error"}]

\* Python's bool as the text of its value.
PyBool(b) == IF b THEN "True" ELSE "False"

\* Python's truth of a value that is True, False or None.
Truthy(v) == v = "True"

\* run_command lines 17-34: True when the command exits 0.
vr_run_command(outcome) == outcome = "ok"

\* check_environment lines 36-59: it prints and has no return statement, so
\* it returns None.
check_environment(env) == "None"

\* check_cuda lines 61-71.
check_cuda(env) == PyBool(vr_run_command(env.nvcc) /\ vr_run_command(env.smi))

\* check_pytorch lines 73-130: True unless the import or the version prints
\* raise; the inner tries swallow what the GPU and arch-flag queries raise.
check_pytorch(env) == PyBool(env.torch = "ok")

\* check_vllm lines 132-166.
check_vllm(env) == PyBool(env.vllm = "ok")

\* main lines 184-185: total_checks and passed_checks.
total_checks(results) == Cardinality(DOMAIN results)
passed_checks(results) == Cardinality({n \in DOMAIN results : Truthy(results[n])})

\* main line 205 and lines 209-210: the exit status.
ExitStatus(results) ==
    IF passed_checks(results) = total_checks(results) THEN 0 ELSE 1

VrInit ==
    /\ vr_pc = "environment"
    /\ vr_env \in VrEnvs
    /\ vr_results = [n \in {} |-> ""]
    /\ vr_summary = <<>>
    /\ vr_exit = None

\* main line 176.
VrEnvironment ==
    /\ vr_pc = "environment"
    /\ vr_results' = ("environment" :> check_environment(vr_env)) @@ vr_results
    /\ vr_pc' = "cuda"
    /\ UNCHANGED <<vr_env, vr_summary, vr_exit>>
    /\ UNCHANGED notVr

\* main line 177.
VrCuda ==
    /\ vr_pc = "cuda"
    /\ vr_results' = ("cuda" :> check_cuda(vr_env)) @@ vr_results
    /\ vr_pc' = "pytorch"
    /\ UNCHANGED <<vr_env, vr_summary, vr_exit>>
    /\ UNCHANGED notVr

\* main line 178.
VrPytorch ==
    /\ vr_pc = "pytorch"
    /\ vr_results' = ("pytorch" :> check_pytorch(vr_env)) @@ vr_results
    /\ vr_pc' = "vllm"
    /\ UNCHANGED <<vr_env, vr_summary, vr_exit>>
    /\ UNCHANGED notVr

\* main line 179.
VrVllm ==
    /\ vr_pc = "vllm"
    /\ vr_results' = ("vllm" :> check_vllm(vr_env)) @@ vr_results
    /\ vr_pc' = "summary"
    /\ UNCHANGED <<vr_env, vr_summary, vr_exit>>
    /\ UNCHANGED notVr

\* main lines 181-205 and the __main__ block lines 207-217: the summary is
\* printed and the script exits.
VrSummary ==
    /\ vr_pc = "summary"
    /\ vr_summary' = <<passed_checks(vr_results), total_checks(vr_results)>>
    /\ vr_exit' = Some(ExitStatus(vr_results))
    /\ vr_pc' = "exited"
    /\ UNCHANGED <<vr_env, vr_results>>
    /\ UNCHANGED notVr

VrNext == VrEnvironment \/ VrCuda \/ VrPytorch \/ VrVllm \/ VrSummary

\* C17: the script exits with status 0 exactly when the printed summary has
\* passed equal to total, and it exits 0 on a machine where nvcc and
\* nvidia-smi succeed and PyTorch and vLLM import.
C17_ExitZeroWhenAllPass ==
    vr_pc = "exited" =>
        /\ vr_exit = Some(0) <=> vr_summary[1] = vr_summary[2]
        /\ (/\ vr_env.nvcc = "ok"
            /\ vr_env.smi = "ok"
            /\ vr_env.torch = "ok"
            /\ vr_env.vllm = "ok") => vr_exit = Some(0)

(***************************************************************************)
(*            manage.py : serve and kv-calibrate, unknown profile          *)
(***************************************************************************)
\* The sets of profile names the configuration may declare.
KnownNames == SUBSET {"p", "r"}

\* serve runs with --profile p or q, whatever profiles are declared.
SvInitProfile ==
    \E name \in {"p", "q"} :
    \E known \in KnownNames :
    \E pc, dr \in BOOLEAN :
    \E extra \in SeqUpTo({<<"--port">>}, 1) :
    \E ov \in {<<>>, <<<<"FOO", "=", "o1">>>>, <<<<"FOO">>>>} :
        SvStart([profile |-> name, print_command |-> pc, dry_run |-> dr,
                 extra_arg |-> extra, env |-> ov],
                known,
                [entrypoint |-> None, args |-> <<>>,
                 env |-> EmptyMap, serve_env |-> EmptyMap],
                EmptyMap)

\* kv-calibrate runs with --profile p or q, whatever profiles are declared,
\* with any flags on any filesystem.
KvInitProfile ==
    \E name \in {"p", "q"} :
    \E known \in KnownNames :
    \E force, skip_deps, no_volumes, podman \in BOOLEAN :
    \E fs \in KvFilesystems :
        KvStart([KvNoArgs EXCEPT !.profile = Some(name),
                                 !.force = force, !.skip_deps = skip_deps,
                                 !.no_volumes = no_volumes],
                [n \in known |->
                    [kv_calibration |->
                        Some([BareSection("org/m") EXCEPT !.output = Some(ProfileOutput)])]],
                EmptyMap, fs, podman, {})

\* The nth name listed by a message that ends in "a, b, c".
ListedName(message, n) == message[3 + 2 * n - 1]

\* The message names the profile asked for and lists, sorted and separated by
\* commas, the profiles declared.
ListsProfiles(exit, name, names) ==
    /\ ~IsNone(exit)
    /\ LET message == Val(exit)
           count == Cardinality(names)
       IN  /\ Len(message) = 3 + (IF count = 0 THEN 0 ELSE 2 * count - 1)
           /\ message[1] = "Unknown profile '"
           /\ message[2] = name
           /\ message[3] = "'. Available: "
           /\ {ListedName(message, n) : n \in 1..count} = names
           /\ \A n \in 1..(count - 1) : message[3 + 2 * n] = ", "
           /\ \A m, n \in 1..count :
                 m < n => \E i, j \in 1..Len(ProfileOrder) :
                             /\ i < j
                             /\ ProfileOrder[i] = ListedName(message, m)
                             /\ ProfileOrder[j] = ListedName(message, n)

\* serve was called with a profile that is not declared.
SvUnknownProfile == sv_pc # "idle" /\ sv_args.profile \notin sv_known

\* kv-calibrate was called with a profile that is not declared.
KvUnknownProfile ==
    /\ kv_pc # "idle"
    /\ ~IsNone(kv_args.profile)
    /\ Val(kv_args.profile) \notin DOMAIN kv_profiles

\* C18: serve --profile P and kv-calibrate --profile P with a name P that is
\* not a key of the profiles mapping end in SystemExit with a message that
\* lists the available profiles, before any Podman volume is touched, any
\* file or directory is created, or any subprocess is launched.
C18_UnknownProfileAborts ==
    /\ [](SvUnknownProfile =>
            /\ sv_pc \in {"start", "exit"}
            /\ sv_pc = "exit" => ListsProfiles(sv_exit, sv_args.profile, sv_known)
            /\ sv_launched = None
            /\ sv_out = <<>>)
    /\ [](KvUnknownProfile =>
            /\ kv_pc \in {"start", "exit"}
            /\ kv_pc = "exit" =>
                  ListsProfiles(kv_exit, Val(kv_args.profile), DOMAIN kv_profiles)
            /\ kv_launched = None
            /\ kv_log = <<>>
            /\ kv_fs = kv_fs0
            /\ kv_volumes = {})
    /\ [][SvUnknownProfile => sv_launched' = sv_launched]_vars
    /\ [][KvUnknownProfile =>
            /\ kv_fs' = kv_fs
            /\ kv_volumes' = kv_volumes
            /\ kv_log' = kv_log
            /\ kv_launched' = kv_launched]_vars

\* C18 witness: kv-calibrate --profile q, with Podman installed and volumes
\* enabled, ended in SystemExit with the two declared profiles listed.
C18_Witness ==
    /\ kv_pc = "exit"
    /\ kv_args.profile = Some("q")
    /\ ~kv_args.no_volumes
    /\ kv_podman
    /\ DOMAIN kv_profiles = {"p", "r"}
    /\ kv_exit = Some(<<"Unknown profile '", "q", "'. Available: ", "p", ", ", "r">>)

(***************************************************************************)
(*                      run_tests.py : collect_suites                      *)
(***************************************************************************)
\* The payloads drawn for the profile "ci": a mapping without suites, with an
\* empty list, with a list, or a payload that is not a mapping.
CsPayloads ==
    {[mapping |-> TRUE, suites |-> <<>>],
     [mapping |-> TRUE, suites |-> <<"s2">>],
     [mapping |-> FALSE, suites |-> <<>>]}

\* The matrices drawn: "ci" declared or not, default_suites empty or not, and
\* the suites mapping empty or with two keys in either order.
CsMatrices ==
    [profiles : {[n \in {} |-> [mapping |-> TRUE, suites |-> <<>>]]}
                    \cup {"ci" :> payload : payload \in CsPayloads},
     default_suites : {<<>>, <<"s1">>},
     suites : {<<>>, <<"s1", "s2">>, <<"s2", "s1">>}]

\* collect_suites lines 38-46: default_order, the suites of the profile when
\* it is declared with a mapping payload, else [].
default_order(declared, profile) ==
    IF profile \in DOMAIN declared /\ declared[profile].mapping
    THEN declared[profile].suites
    ELSE <<>>

CsInit ==
    /\ cs_pc = "call"
    /\ cs_matrix \in CsMatrices
    /\ cs_profile \in {"ci", "dev"}
    /\ cs_suites \in {<<>>, <<"s1">>, <<"s3", "s1">>}
    /\ cs_selected = None

\* collect_suites lines 37-53.
CsCollect ==
    /\ cs_pc = "call"
    /\ LET selected == collect_suites(cs_suites,
                                      default_order(cs_matrix.profiles, cs_profile),
                                      cs_matrix.default_suites, cs_matrix.suites)
       IN  /\ cs_selected' = selected
           /\ cs_pc' = IF IsNone(selected) THEN "exit" ELSE "returned"
    /\ UNCHANGED <<cs_matrix, cs_profile, cs_suites>>
    /\ UNCHANGED notCs

CsNext == CsCollect

\* The suites list of the named profile, [] when the profile has none.
CsProfileSuites ==
    IF cs_profile \in DOMAIN cs_matrix.profiles
    THEN cs_matrix.profiles[cs_profile].suites
    ELSE <<>>

\* C19: collect_suites selects the --suite arguments if any were given, else
\* the non-empty suites list of the named profile, else the non-empty
\* default_suites of the matrix, else all keys of the matrix's suites mapping
\* in declaration order; it raises SystemExit only when all four are empty,
\* and a profile name that is not declared falls through to the later sources.
C19_SelectionPrecedence ==
    cs_pc \in {"returned", "exit"} =>
        /\ cs_selected =
              (CASE cs_suites # <<>> -> Some(cs_suites)
                 [] cs_suites = <<>> /\ CsProfileSuites # <<>> -> Some(CsProfileSuites)
                 [] cs_suites = <<>> /\ CsProfileSuites = <<>>
                       /\ cs_matrix.default_suites # <<>> -> Some(cs_matrix.default_suites)
                 [] cs_suites = <<>> /\ CsProfileSuites = <<>>
                       /\ cs_matrix.default_suites = <<>>
                       /\ cs_matrix.suites # <<>> -> Some(cs_matrix.suites)
                 [] OTHER -> None)
        /\ cs_pc = "exit" <=>
              (/\ cs_suites = <<>>
               /\ CsProfileSuites = <<>>
               /\ cs_matrix.default_suites = <<>>
               /\ cs_matrix.suites = <<>>)
        /\ (/\ cs_profile \notin DOMAIN cs_matrix.profiles
            /\ cs_suites = <<>>
            /\ cs_matrix.default_suites # <<>>) =>
              (cs_pc = "returned" /\ cs_selected = Some(cs_matrix.default_suites))

\* C19 witness: the profile is not declared, no --suite was given and there
\* are no default_suites, and the keys of the suites mapping came back in
\* declaration order.
C19_Witness ==
    /\ cs_pc = "returned"
    /\ cs_profile = "dev"
    /\ "ci" \in DOMAIN cs_matrix.profiles
    /\ cs_suites = <<>>
    /\ cs_matrix.default_suites = <<>>
    /\ cs_selected = Some(<<"s2", "s1">>)

(***************************************************************************)
(*                            Specifications                               *)
(***************************************************************************)
\* run_tests.py on its own.
Init == RTInit /\ CmpIdle /\ McIdle /\ SvIdle /\ KvIdle /\ SyIdle /\ FeIdle /\ VrIdle /\ CsIdle

Next == RTNext

Spec == Init /\ [][Next]_vars

\* compare_results.py on its own.
InitCompare == CmpInit /\ RTIdle /\ McIdle /\ SvIdle /\ KvIdle /\ SyIdle /\ FeIdle /\ VrIdle /\ CsIdle

SpecCompare == InitCompare /\ [][CmpNext]_vars

\* manage.py delete, run any number of times on any machine state.
InitDelete == McInit /\ RTIdle /\ CmpIdle /\ SvIdle /\ KvIdle /\ SyIdle /\ FeIdle /\ VrIdle /\ CsIdle

SpecDelete == InitDelete /\ [][McNext]_vars

\* manage.py serve on its own, over the command inputs.
InitServe == SvInitCmd /\ RTIdle /\ CmpIdle /\ McIdle /\ KvIdle /\ SyIdle /\ FeIdle /\ VrIdle /\ CsIdle

SpecServe == InitServe /\ [][SvNext]_vars

\* manage.py serve on its own, over the environment inputs.
InitServeEnv == SvInitEnv /\ RTIdle /\ CmpIdle /\ McIdle /\ KvIdle /\ SyIdle /\ FeIdle /\ VrIdle /\ CsIdle

SpecServeEnv == InitServeEnv /\ [][SvNext]_vars

\* manage.py kv-calibrate, over flags, filesystems and failures.
InitKv == KvInitRun /\ RTIdle /\ CmpIdle /\ McIdle /\ SvIdle /\ SyIdle /\ FeIdle /\ VrIdle /\ CsIdle

SpecKv == InitKv /\ [][KvNext]_vars

\* manage.py kv-calibrate, over option values.
InitKvArgs == KvInitArgs /\ RTIdle /\ CmpIdle /\ McIdle /\ SvIdle /\ SyIdle /\ FeIdle /\ VrIdle /\ CsIdle

SpecKvArgs == InitKvArgs /\ [][KvNext]_vars

\* manage.py install, info and delete on one model cache.
InitCache == McInit /\ RTIdle /\ CmpIdle /\ SvIdle /\ KvIdle /\ SyIdle /\ FeIdle /\ VrIdle /\ CsIdle

SpecCache == InitCache /\ [][McCacheNext]_vars

\* manage.py _synthesize_transformer_files on any model directory.
InitSynthesize == SyInit /\ RTIdle /\ CmpIdle /\ McIdle /\ SvIdle /\ KvIdle /\ FeIdle /\ VrIdle /\ CsIdle

SpecSynthesize == InitSynthesize /\ [][SyNext]_vars

\* final_environment_test.py main on any machine.
InitEnvTest == FeInit /\ SyIdle /\ RTIdle /\ CmpIdle /\ McIdle /\ SvIdle /\ KvIdle /\ VrIdle /\ CsIdle

SpecEnvTest == InitEnvTest /\ [][FeNext]_vars

\* validate-rtx5090.py on any machine.
InitValidate == VrInit /\ FeIdle /\ SyIdle /\ RTIdle /\ CmpIdle /\ McIdle /\ SvIdle /\ KvIdle /\ CsIdle

SpecValidate == InitValidate /\ [][VrNext]_vars

\* manage.py serve or kv-calibrate, one of the two, with a profile that is or
\* is not declared.
InitProfile ==
    \/ SvInitProfile /\ RTIdle /\ CmpIdle /\ McIdle /\ KvIdle /\ SyIdle /\ FeIdle /\ VrIdle /\ CsIdle
    \/ KvInitProfile /\ RTIdle /\ CmpIdle /\ McIdle /\ SvIdle /\ SyIdle /\ FeIdle /\ VrIdle /\ CsIdle

SpecProfile == InitProfile /\ [][SvNext \/ KvNext]_vars

\* run_tests.py collect_suites on any matrix and arguments.
InitCollect == CsInit /\ RTIdle /\ CmpIdle /\ McIdle /\ SvIdle /\ KvIdle /\ SyIdle /\ FeIdle /\ VrIdle

SpecCollect == InitCollect /\ [][CsNext]_vars

\* compare_results.py on any two files.
InitCompareAny == CmpInitAny /\ RTIdle /\ McIdle /\ SvIdle /\ KvIdle /\ SyIdle /\ FeIdle /\ VrIdle /\ CsIdle

SpecCompareAny == InitCompareAny /\ [][CmpNext]_vars

====
